---- MODULE Spec2Model ----
(***************************************************************************)
(* BaitBreaker: the requester's resilient send (safeRuntimeMessage) and     *)
(* the coordinator's batch classification over the classification cache.   *)
(***************************************************************************)
EXTENDS Integers, Sequences, FiniteSets, TLC

(***************************************************************************)
(* Bounds of the model.                                                    *)
(***************************************************************************)
\* largest maxRetries option a caller passes
MaxRetriesOpt == 2
\* number of send() calls one requester makes
MaxSends == 2
\* links of all classifyLinks requests the coordinator handles, one request after the other
MaxLinks == 3
\* clock advances
MaxTicks == 1
\* PERFORMANCE_CONFIG.CONCURRENT_LIMIT, scaled down (config/config.js sets 5)
CONCURRENT_LIMIT == 2
\* CacheManager.MAX_CACHE_SIZE, scaled down (cache-manager.js sets 1000)
MAX_CACHE_SIZE == 2
\* CacheManager calls that change the storage, when called one after the other
MaxCacheOps == 3
\* clock advances between those calls
MaxAdvances == 3
\* messages delivered to the coordinator's listener
MaxMessages == 2
\* largest number of links of a classifyLinks message
MaxRequestLinks == 2
\* classifyLink / getSummaryForUrl invocations over the failing storage
MaxItems == 2
\* eligible links the page comes to hold
MaxPageLinks == 2
\* classifyLinks messages the coordinator handles at the same time
MaxCalls == 2
\* largest number of links of one of them
MaxCallLinks == 3
\* rescan messages the content script handles
MaxRescans == 1
\* saveClassification / saveSummary calls
MaxSaves == 3
\* classifyWithAI / summarizeWithAI calls of the content script
MaxRequests == 3

(***************************************************************************)
(* Program constants (config/config.js).                                   *)
(***************************************************************************)
TIMEOUT_CONFIG_MESSAGE == 45000
RETRY_CONFIG_MAX_RETRIES == 2
RETRY_CONFIG_RETRY_DELAY == 1000
TIMEOUT_CONFIG_CLASSIFICATION_BASE == 30000
TIMEOUT_CONFIG_CLASSIFICATION_PER_LINK == 5000
TIMEOUT_CONFIG_SUMMARY == 30000
SENSITIVITY_CONFIG_DEFAULT == 5
SENSITIVITY_CONFIG_MIN == 1
SENSITIVITY_CONFIG_MAX == 10
\* CacheManager.CACHE_DURATION: 7 days in milliseconds
CACHE_DURATION == 7 * 24 * 60 * 60 * 1000
\* CONFIDENCE_CONFIG.REGEX, in percent
CONFIDENCE_REGEX_BASE == 30
CONFIDENCE_REGEX_MULTIPLIER == 15
CONFIDENCE_REGEX_MAX == 95

\* an option the caller left out
NotGiven == <<>>
Given(v) == <<v>>

(***************************************************************************)
(* The requester (content script): BBContentManager.                       *)
(***************************************************************************)
VARIABLES
  runtimeId,            \* chrome.runtime.id: "present", "undefined", or reading it "throws"
  contextInvalidated,   \* this.contextInvalidated
  pc,                   \* position of the current safeRuntimeMessage call
  message,              \* the request being sent
  options,              \* the destructured options {timeout, maxRetries, retryDelay}
  attempt,              \* the loop variable
  lastError,            \* lastError (message of the last caught error)
  outcome,              \* what the call returned or threw
  sendMessageCalls,     \* chrome.runtime.sendMessage invocations of this call
  history,              \* how each transport attempt of this call ended
  elapsed,              \* milliseconds this call spent in its timers
  orphaned,             \* a sendMessage promise that lost its race has not settled yet
  sends                 \* calls started so far

varsSend == <<runtimeId, contextInvalidated, pc, message, options, attempt,
              lastError, outcome, sendMessageCalls, history, elapsed, orphaned, sends>>

(***************************************************************************)
(* The coordinator (service worker): BaitBreakerService and CacheManager.  *)
(***************************************************************************)
VARIABLES
  storage,        \* chrome.storage.local: key -> stored value
  now,            \* Date.now()
  ticks,          \* clock advances so far
  bpc,            \* position of classifyMultipleLinks: "idle", "running", "done"
  links,          \* its argument: the link texts
  detectionMode,  \* its argument
  sensitivity,    \* its argument
  chunk,          \* the loop variable i: offset of the current chunk
  tasks,          \* the classifyLink invocations: link index -> task
  batchResults,   \* the array Promise.all is filling for the current chunk
  results,        \* results
  aiCalls,        \* aiManager.classifyClickbait invocations per text
  writerOf,       \* per key: the text and the returned result of the save that wrote the stored entry
  linksUsed       \* links of the requests started so far

varsBatch == <<storage, now, ticks, bpc, links, detectionMode, sensitivity, chunk,
               tasks, batchResults, results, aiCalls, writerOf, linksUsed>>

(***************************************************************************)
(* CacheManager called directly, one call after the other.                 *)
(***************************************************************************)
VARIABLES
  cacheOp,        \* the last CacheManager call that returned: kind, key, return value, and
                  \* for a read its time
  cacheOps,       \* calls that changed the storage so far
  written,        \* keys of the entries saved so far
  rewrote,        \* some key was saved more than once
  evicted,        \* cache entries enforceMaxSize removed: key and timestamp
  cleared,        \* clearAll has run
  advances        \* clock advances so far

varsCache == <<cacheOp, cacheOps, written, rewrote, evicted, cleared, advances>>

(***************************************************************************)
(* The coordinator's message listener and BaitBreakerService.handleMessage. *)
(***************************************************************************)
VARIABLES
  initialized,        \* this.initialized
  initError,          \* this.initError is set
  initPc,             \* service.initialize(): "pending" or "settled"
  keepaliveInterval,  \* this.keepaliveInterval is set (the keepalive timer is active)
  timers,             \* the setInterval timers created and not cleared
  msgs                \* the messages delivered to the listener: id -> request and progress

varsService == <<initialized, initError, initPc, keepaliveInterval, timers, msgs>>

(***************************************************************************)
(* One classifyLink or getSummaryForUrl over a storage that can fail.      *)
(***************************************************************************)
VARIABLES
  item,           \* the invocation: what it is for, its position, its result
  itemsRun        \* invocations started so far

varsFault == <<item, itemsRun>>

(***************************************************************************)
(* BBContentManager: the links of the page, their badges and summaries.    *)
(***************************************************************************)
VARIABLES
  isScanning,            \* this.isScanning
  scanBatch,             \* links of the classifyLinks request in flight
  processedLinks,        \* this.processedLinks
  badges,                \* link -> its .bb-indicator: absent, active or inactive
  summaryLoadingStatus,  \* this.summaryLoadingStatus, "none" for no entry
  summaryCache,          \* this.summaryCache, "absent" for no entry
  prefetching,           \* link -> prefetchSummary requests in flight
  hovering,              \* link -> a hover getSummary request is in flight
  rescans,               \* rescan messages handled so far
  clickbaitCount,        \* this.clickbaitCount
  anchors,               \* the eligible links document.querySelectorAll('a[href]') finds
  scanTimeout,           \* this.scanTimeout: the debounce timer of the MutationObserver is pending
  handledDead            \* requests whose CONTEXT_INVALIDATED failure was handled

varsContent == <<isScanning, scanBatch, processedLinks, badges, summaryLoadingStatus,
                 summaryCache, prefetching, hovering, rescans, clickbaitCount,
                 anchors, scanTimeout, handledDead>>

(***************************************************************************)
(* classifyMultipleLinks invocations the coordinator runs at the same time. *)
(***************************************************************************)
VARIABLES
  running         \* invocation -> its links, its chunk and each classifyLink's position

varsLoad == <<running>>

(***************************************************************************)
(* saveClassification and saveSummary calls whose awaits interleave.       *)
(***************************************************************************)
VARIABLES
  saves           \* the save calls: number -> key, entry built, position, toRemove

varsSaves == <<saves>>

(***************************************************************************)
(* The bridge between the content script and the in-page script            *)
(* (window.postMessage with correlation ids).                              *)
(***************************************************************************)
VARIABLES
  pendingClassifications, \* the ids of the Map pendingClassifications
  pendingSummaries,       \* the ids of the Map pendingSummaries
  windowMessages,         \* messages posted to the window and not dispatched yet
  uuids                   \* the number of ids uuid() has produced

varsPending == <<pendingClassifications, pendingSummaries, windowMessages, uuids>>

vars == <<varsSend, varsBatch, varsCache, varsService, varsFault, varsContent, varsLoad,
          varsSaves,
          varsPending>>
\* what the actions of one component leave alone
outsideSend == <<varsPending, varsSaves, varsLoad, varsBatch, varsCache, varsService, varsFault, varsContent>>
outsideBatch == <<varsPending, varsSaves, varsLoad, varsSend, varsCache, varsService, varsFault, varsContent>>
outsideService == <<varsPending, varsSaves, varsLoad, varsSend, varsBatch, varsCache, varsFault, varsContent>>
outsideContent == <<varsPending, varsSaves, varsLoad, varsSend, varsBatch, varsCache, varsService, varsFault>>
outsideFault == <<varsPending, varsSaves, varsLoad, varsSend, varsCache, varsService, varsContent, now, ticks, bpc, links, detectionMode,
                  sensitivity, chunk, tasks, batchResults, results, aiCalls, writerOf,
                  linksUsed>>
outsideCache == <<varsPending, varsSaves, varsLoad, varsSend, varsService, varsFault, varsContent, bpc, links, detectionMode, sensitivity, chunk, tasks,
                  batchResults, results, aiCalls, writerOf, linksUsed, ticks>>
outsideLoad == <<varsPending, varsSaves, varsSend, varsBatch, varsCache, varsService, varsFault, varsContent>>
outsideSaves == <<varsPending, varsLoad, varsSend, varsCache, varsService, varsFault, varsContent, bpc, links,
                  detectionMode, sensitivity, chunk, tasks, batchResults, results, aiCalls,
                  writerOf, linksUsed>>

\* ---- error messages: sequences of words, String.includes as a contiguous run

Includes(msg, needle) ==
  \E i \in 0..(Len(msg) - Len(needle)) :
    \A j \in 1..Len(needle) : msg[i + j] = needle[j]

MsgContextInvalidated == <<"Extension", "context", "invalidated", ".">>
MsgChannelClosed == <<"the", "message", "channel", "closed", "before", "a", "response", "was", "received">>
MsgPortClosed == <<"The", "message", "port", "closed", "before", "a", "response", "was", "received", ".">>
MsgNoReceiver == <<"receiving", "end", "does", "not", "exist">>
MsgNetwork == <<"Network", "error">>
MsgNone == <<>>

\* what chrome.runtime.sendMessage can reject with
TransportErrors ==
  {MsgContextInvalidated, MsgChannelClosed, MsgPortClosed, MsgNoReceiver, MsgNetwork, MsgNone}

ErrContextInvalidated == <<"CONTEXT_INVALIDATED">>
ErrChannelClosed == <<"MESSAGE_CHANNEL_CLOSED">>
ErrTimeout == <<"TIMEOUT">>

\* what the coordinator can answer
Responses == {"r1", "r2"}
Requests == {"classifyLinks", "getSummary"}

OptTimeouts == {NotGiven, Given(100)}
OptRetryDelays == {NotGiven, Given(10)}
OptMaxRetries == {NotGiven} \cup {Given(n) : n \in 0..MaxRetriesOpt}

OrDefault(v, d) == IF v = NotGiven THEN d ELSE v[1]

\* const { timeout = ..., maxRetries = ..., retryDelay = ... } = options
Destructure(o) ==
  [timeout |-> OrDefault(o.timeout, TIMEOUT_CONFIG_MESSAGE),
   maxRetries |-> OrDefault(o.maxRetries, RETRY_CONFIG_MAX_RETRIES),
   retryDelay |-> OrDefault(o.retryDelay, RETRY_CONFIG_RETRY_DELAY)]

\* isExtensionContextValid(): !!(chrome?.runtime?.id), false when reading it throws
isExtensionContextValid_AlwaysTrue == TRUE
isExtensionContextValid_ThrowIsLive == runtimeId # "undefined"
isExtensionContextValid == runtimeId = "present"

IsContextInvalidatedError_Never(errorMsg) == FALSE
IsContextInvalidatedError(errorMsg) ==
  Includes(errorMsg, <<"Extension", "context", "invalidated">>)

IsChannelClosedError_Any(errorMsg) == TRUE
IsChannelClosedError(errorMsg) ==
  \/ Includes(errorMsg, <<"message", "channel", "closed">>)
  \/ Includes(errorMsg, <<"message", "port", "closed">>)
  \/ Includes(errorMsg, <<"receiving", "end", "does", "not", "exist">>)

\* a comparison that no error of the timer passes
IsTimeoutError_Never(errorMsg) == FALSE
IsTimeoutError(errorMsg) == errorMsg = ErrTimeout

\* if (attempt < maxRetries) continue;
HasRetryLeft_OffByOne(a, maxRetries) == a <= maxRetries
HasRetryLeft_Never(a, maxRetries) == FALSE
HasRetryLeft(a, maxRetries) == a < maxRetries

\* for (...; attempt <= maxRetries; ...)
LoopContinues(a, maxRetries) == a <= maxRetries

\* if (attempt > 0): the retry delay and the re-check come before the attempt
NeedsDelay_Always(a) == TRUE
NeedsDelay(a) == a > 0

NoOutcome == [kind |-> "none"]
Returned(r) == [kind |-> "response", value |-> r]
Thrown(m) == [kind |-> "error", message |-> m]

Throw(m) ==
  /\ pc' = "thrown"
  /\ outcome' = Thrown(m)

\* throw new Error('CONTEXT_INVALIDATED') after setting the flag
ThrowContextInvalidated ==
  /\ contextInvalidated' = TRUE
  /\ Throw(ErrContextInvalidated)

\* the try block up to its await: chrome.runtime.sendMessage(message) raced with the timer
StartAttempt ==
  /\ sendMessageCalls' = sendMessageCalls + 1
  /\ pc' = "waiting"
  /\ UNCHANGED <<contextInvalidated, outcome>>

\* the head of one loop iteration, entered with attempt = a, maxRetries = mr and
\* `calls` transport invocations made: the loop condition, then the delay or the attempt;
\* when the loop ends: throw lastError
LoopHead(a, mr, calls, err) ==
  IF LoopContinues(a, mr)
    THEN IF NeedsDelay(a)
           THEN /\ pc' = "delay"
                /\ sendMessageCalls' = calls
                /\ outcome' = NoOutcome
                /\ UNCHANGED contextInvalidated
           ELSE /\ pc' = "waiting"
                /\ sendMessageCalls' = calls + 1
                /\ outcome' = NoOutcome
                /\ UNCHANGED contextInvalidated
    ELSE /\ Throw(err)
         /\ sendMessageCalls' = calls
         /\ UNCHANGED contextInvalidated

\* safeRuntimeMessage(message, options) up to its first await
SafeRuntimeMessage(m, o) ==
  /\ pc = "idle"
  /\ sends < MaxSends
  /\ sends' = sends + 1
  /\ message' = m
  /\ options' = Destructure(o)
  /\ attempt' = 0
  /\ lastError' = MsgNone
  /\ history' = <<>>
  /\ elapsed' = 0
  /\ IF ~isExtensionContextValid
       THEN /\ ThrowContextInvalidated
            /\ sendMessageCalls' = 0
       ELSE LoopHead(0, Destructure(o).maxRetries, 0, MsgNone)
  /\ UNCHANGED <<runtimeId, orphaned, orphaned>>
  /\ UNCHANGED outsideSend


\* the success path without its return: the loop goes on to the next iteration
TransportResolves_NoReturn(r) ==
  /\ pc = "waiting"
  /\ history' = Append(history, Returned(r))
  /\ attempt' = attempt + 1
  /\ pc' = "delay"
  /\ UNCHANGED <<runtimeId, orphaned, contextInvalidated, message, options, outcome,
                 lastError, sendMessageCalls, elapsed, sends>>
  /\ UNCHANGED outsideSend

\* the transport answers before the timer: return response
TransportResolves(r) ==
  /\ pc = "waiting"
  /\ history' = Append(history, Returned(r))
  /\ pc' = "returned"
  /\ outcome' = Returned(r)
  /\ UNCHANGED <<runtimeId, orphaned, contextInvalidated, message, options, attempt,
                 lastError, sendMessageCalls, elapsed, sends>>
  /\ UNCHANGED outsideSend

\* the catch block
Catch(errorMsg) ==
  /\ lastError' = errorMsg
  /\ IF IsContextInvalidatedError(errorMsg)
       THEN /\ ThrowContextInvalidated
            /\ UNCHANGED <<attempt, sendMessageCalls>>
       ELSE IF IsChannelClosedError(errorMsg) \/ IsTimeoutError(errorMsg)
         THEN IF HasRetryLeft(attempt, options.maxRetries)
                THEN \* continue: attempt++, then the head of the next iteration
                     /\ attempt' = attempt + 1
                     /\ LoopHead(attempt + 1, options.maxRetries, sendMessageCalls, errorMsg)
                ELSE /\ Throw(IF IsChannelClosedError(errorMsg) THEN ErrChannelClosed ELSE ErrTimeout)
                     /\ UNCHANGED <<attempt, contextInvalidated, sendMessageCalls>>
         ELSE \* throw error
              /\ Throw(errorMsg)
              /\ UNCHANGED <<attempt, contextInvalidated, sendMessageCalls>>

\* the transport rejects before the timer
TransportRejects(errorMsg) ==
  /\ pc = "waiting"
  /\ history' = Append(history, Thrown(errorMsg))
  /\ Catch(errorMsg)
  /\ UNCHANGED <<runtimeId, orphaned, message, options, elapsed, sends>>
  /\ UNCHANGED outsideSend

\* a race without its timer
TimerFires_Never == FALSE
\* the timer of the race fires first: reject(new Error('TIMEOUT'))
TimerFires ==
  /\ pc = "waiting"
  /\ history' = Append(history, Thrown(ErrTimeout))
  /\ elapsed' = elapsed + options.timeout
  /\ Catch(ErrTimeout)
  /\ orphaned' = TRUE
  /\ UNCHANGED <<runtimeId, message, options, sends>>
  /\ UNCHANGED outsideSend

\* await setTimeout(retryDelay), then the re-check and the next attempt
RetryDelayElapsed ==
  /\ pc = "delay"
  /\ elapsed' = elapsed + options.retryDelay
  /\ IF ~isExtensionContextValid
       THEN /\ ThrowContextInvalidated
            /\ UNCHANGED sendMessageCalls
       ELSE StartAttempt
  /\ UNCHANGED <<runtimeId, orphaned, message, options, attempt, lastError, history, sends>>
  /\ UNCHANGED outsideSend

\* a race whose late fulfilment is taken as the response of the call in progress
LateResponse_Returned(r) ==
  /\ orphaned
  /\ orphaned' = FALSE
  /\ IF pc \in {"waiting", "delay"}
       THEN /\ pc' = "returned"
            /\ outcome' = Returned(r)
       ELSE UNCHANGED <<pc, outcome>>
  /\ UNCHANGED <<runtimeId, contextInvalidated, message, options, attempt, lastError,
                 sendMessageCalls, history, elapsed, sends>>
  /\ UNCHANGED outsideSend
\* the sendMessage promise of an attempt whose timer fired first fulfils with r:
\* the race has settled, no handler of safeRuntimeMessage runs
LateResponse(r) ==
  /\ orphaned
  /\ orphaned' = FALSE
  /\ UNCHANGED <<runtimeId, contextInvalidated, pc, message, options, attempt, lastError,
                 outcome, sendMessageCalls, history, elapsed, sends>>
  /\ UNCHANGED outsideSend

\* the caller has seen the outcome; the requester is ready for its next call
Settle ==
  /\ pc \in {"returned", "thrown"}
  /\ sends < MaxSends
  /\ pc' = "idle"
  /\ UNCHANGED <<runtimeId, orphaned, contextInvalidated, message, options, attempt, lastError,
                 outcome, sendMessageCalls, history, elapsed, sends>>
  /\ UNCHANGED outsideSend

\* the extension is reloaded, updated or disabled: chrome.runtime.id goes away
InvalidateContext(how) ==
  /\ runtimeId = "present"
  /\ runtimeId' = how
  /\ UNCHANGED <<orphaned, contextInvalidated, pc, message, options, attempt, lastError,
                 outcome, sendMessageCalls, history, elapsed, sends>>
  /\ UNCHANGED outsideSend

(***************************************************************************)
(* CacheManager over chrome.storage.local.                                 *)
(***************************************************************************)
\* link texts, as character codes: "Aa" and "H?"
TextAa == <<65, 97>>
TextHQ == <<72, 63>>
Texts == {TextAa, TextHQ}

\* hash |= 0: the conversion to a signed 32-bit integer, which leaves every value
\* of -2^31..2^31-1 as it is. The accumulator of a two-character text is at most
\* 31 * 127 + 127, and an integer of the model cannot leave that range.
ToInt32(x) == x

\* hashText(text): hash = ((hash << 5) - hash) + char; hash |= 0
hashText(text) ==
  LET h[i \in 0..Len(text)] ==
        IF i = 0 THEN 0 ELSE ToInt32(((h[i - 1] * 32) - h[i - 1]) + text[i])
  IN  h[Len(text)]

\* `class_${this.hashText(text)}`
classificationKey(text) == [kind |-> "class", hash |-> hashText(text)]
\* `summary_${this.hashText(url)}`
summaryKey(url) == [kind |-> "summary", hash |-> hashText(url)]

\* value.timestamp || 0
TimestampOf(value) == IF "timestamp" \in DOMAIN value THEN value.timestamp ELSE 0

\* isValid(entry): entry && entry.timestamp && (Date.now() - entry.timestamp) < CACHE_DURATION
isValid_NeverExpires(value, t) == TimestampOf(value) # 0
isValid_Inclusive(value, t) ==
  /\ TimestampOf(value) # 0
  /\ (t - TimestampOf(value)) <= CACHE_DURATION
isValid(value, t) ==
  /\ TimestampOf(value) # 0
  /\ (t - TimestampOf(value)) < CACHE_DURATION

NoData == [kind |-> "null"]

\* getClassification(text): result[key].data when stored and valid, else null
getClassification(store, text, t) ==
  LET key == classificationKey(text)
  IN  IF key \in DOMAIN store /\ isValid(store[key], t) THEN store[key].data ELSE NoData

\* the entry saveClassification builds
ClassificationEntry(classification, t) ==
  [data |-> classification, timestamp |-> t, type |-> "classification"]

\* a set that keeps the timestamp of the value already stored under the key
StorageSet_KeepsTimestamp(store, key, value) ==
  [k \in DOMAIN store \cup {key} |->
     IF k # key THEN store[k]
     ELSE IF key \in DOMAIN store
       THEN [value EXCEPT !.timestamp = TimestampOf(store[key])]
     ELSE value]
\* chrome.storage.local.set({ [key]: entry })
StorageSet(store, key, value) ==
  [k \in DOMAIN store \cup {key} |-> IF k = key THEN value ELSE store[k]]

\* chrome.storage.local.remove(keys)
StorageRemove(store, keys) == [k \in DOMAIN store \ keys |-> store[k]]

\* enforceMaxSize() after its get(): the keys of the `overflow` oldest entries;
\* entries of equal timestamp may be sorted either way
OverflowChoices_None(store) == {{}}
OverflowChoices(store) ==
  IF Cardinality(DOMAIN store) <= MAX_CACHE_SIZE
    THEN {{}}
    ELSE LET overflow == Cardinality(DOMAIN store) - MAX_CACHE_SIZE
         IN  {S \in SUBSET (DOMAIN store) :
                /\ Cardinality(S) = overflow
                /\ \A a \in S, b \in (DOMAIN store) \ S :
                     TimestampOf(store[a]) <= TimestampOf(store[b])}

(***************************************************************************)
(* regexDetect and the AI classifier.                                      *)
(***************************************************************************)
Min(a, b) == IF a < b THEN a ELSE b
Max(a, b) == IF a > b THEN a ELSE b

\* the patterns of REGEX_PATTERNS a text matches; of the seven only '\?$' can
\* match a text of at most two characters
RegexMatches(t) == IF t # <<>> /\ t[Len(t)] = 63 THEN 1 ELSE 0

\* regexDetect(text), for a text without surrounding whitespace; confidence in percent
regexDetect(text) ==
  IF text = <<>>
    THEN [isClickbait |-> FALSE, confidence |-> 0]
    ELSE LET n == RegexMatches(text)
         IN  [isClickbait |-> n > 0,
              confidence |-> IF n > 0
                               THEN Min(CONFIDENCE_REGEX_BASE + n * CONFIDENCE_REGEX_MULTIPLIER,
                                        CONFIDENCE_REGEX_MAX)
                               ELSE 0]

\* what aiManager.classifyClickbait can resolve with; confidence in percent
ClassifierOutputs ==
  {[isClickbait |-> TRUE, confidence |-> 30, reason |-> "question"],
   [isClickbait |-> FALSE, confidence |-> 10, reason |-> "plain"]}

DetectionModes == {"regex", "chrome-ai"}
\* sensitivity as sent by the requester; 0 stands for a value Number() makes falsy
Sensitivities == {0, 3}

\* Math.max(1, Math.min(10, Number(sensitivity) || DEFAULT)) / 10, in percent
Threshold(sens) ==
  10 * Max(SENSITIVITY_CONFIG_MIN,
           Min(SENSITIVITY_CONFIG_MAX, IF sens = 0 THEN SENSITIVITY_CONFIG_DEFAULT ELSE sens))

\* { ...classification, isClickbait: confidence >= threshold && !!classification.isClickbait }
Adjusted(classification, sens) ==
  [classification EXCEPT
     !.isClickbait = (classification.confidence >= Threshold(sens)) /\ classification.isClickbait]

\* { isClickbait: false, error: true, errorMessage: error.message }
Errored_Silent(msg) == [isClickbait |-> FALSE, confidence |-> 0]
Errored(msg) == [isClickbait |-> FALSE, error |-> TRUE, errorMessage |-> msg]

(***************************************************************************)
(* classifyMultipleLinks.                                                  *)
(***************************************************************************)
Pending == [kind |-> "pending"]
NoEntry == [kind |-> "none"]

\* a classifyLink invocation that has not started (a later chunk)
TaskTodo ==
  [pc |-> "todo", entry |-> NoEntry, toRemove |-> {}, via |-> "none",
   readValid |-> FALSE, wrote |-> FALSE, calls |-> 0, hitOf |-> NoEntry]
\* classifyLink up to its first await: the storage get of getClassification
TaskStarted == [TaskTodo EXCEPT !.pc = "reading"]

\* links.slice(i, i + CONCURRENT_LIMIT), as link indexes
ChunkIndexes_All(i, n) == {k \in 1..n : i < k}
ChunkIndexes(i, n) == {k \in 1..n : i < k /\ k <= i + CONCURRENT_LIMIT}

\* batch.map(classifyLink): every invocation of the chunk starts
StartChunk(ts, i, n) ==
  [k \in 1..n |-> IF k \in ChunkIndexes(i, n) THEN TaskStarted ELSE ts[k]]

\* the array of Promise.all for a chunk: one pending slot per invocation
NewBatchResults(i, n) == [k \in 1..Cardinality(ChunkIndexes(i, n)) |-> Pending]

\* Promise.all keeps each fulfilment value at the position of its promise
PromiseAllFulfil_CompletionOrder(arr, pos, v) ==
  LET free == CHOOSE k \in 1..Len(arr) :
                arr[k] = Pending /\ \A j \in 1..(k - 1) : arr[j] # Pending
  IN  [arr EXCEPT ![free] = v]
PromiseAllFulfil(arr, pos, v) == [arr EXCEPT ![pos] = v]

\* classifyLink(link) returns value v: its promise in the chunk's array settles
Return(k, v, via) ==
  /\ batchResults' = PromiseAllFulfil(batchResults, k - chunk, [value |-> v, link |-> k])
  /\ tasks' = [tasks EXCEPT ![k].pc = "done", ![k].via = via,
                            ![k].entry = NoEntry, ![k].toRemove = {}]

\* classifyMultipleLinks(links, detectionMode, sensitivity) up to its first await
ClassifyMultipleLinks(ls, mode, sens) ==
  /\ bpc \in {"idle", "done"}
  /\ linksUsed + Len(ls) <= MaxLinks
  /\ linksUsed' = linksUsed + Len(ls)
  /\ links' = ls
  /\ detectionMode' = mode
  /\ sensitivity' = sens
  /\ chunk' = 0
  /\ results' = <<>>
  /\ IF Len(ls) = 0
       THEN /\ bpc' = "done"
            /\ tasks' = <<>>
            /\ batchResults' = <<>>
       ELSE /\ bpc' = "running"
            /\ tasks' = StartChunk([k \in 1..Len(ls) |-> TaskTodo], 0, Len(ls))
            /\ batchResults' = NewBatchResults(0, Len(ls))
  /\ UNCHANGED <<storage, now, ticks, aiCalls, writerOf>>
  /\ UNCHANGED outsideBatch

\* the storage holds an unexpired classification under the key of `text`
HoldsUnexpired(store, text, t) ==
  \E key \in DOMAIN store :
    /\ key.kind = "class"
    /\ key.hash = hashText(text)
    /\ store[key].type = "classification"
    /\ store[key].timestamp > 0
    /\ t - store[key].timestamp < CACHE_DURATION

\* classifyLink: getClassification returns; cached result, regexDetect, or the AI call starts
CacheReadReturns(k) ==
  /\ bpc = "running"
  /\ k \in DOMAIN tasks
  /\ tasks[k].pc = "reading"
  /\ LET text == links[k]
         cached == getClassification(storage, text, now)
         seen == [tasks EXCEPT ![k].readValid = HoldsUnexpired(storage, text, now)]
     IN  IF cached # NoData /\ detectionMode = "chrome-ai"
           THEN /\ batchResults' = PromiseAllFulfil(batchResults, k - chunk,
                                                    [value |-> cached, link |-> k])
                /\ tasks' = [seen EXCEPT ![k].pc = "done", ![k].via = "cache",
                                         ![k].hitOf = writerOf[classificationKey(text)]]
                /\ UNCHANGED aiCalls
           ELSE IF detectionMode = "regex"
             THEN /\ batchResults' = PromiseAllFulfil(batchResults, k - chunk,
                                                      [value |-> regexDetect(text), link |-> k])
                  /\ tasks' = [seen EXCEPT ![k].pc = "done", ![k].via = "regex", ![k].calls = 1]
                  /\ UNCHANGED aiCalls
             ELSE /\ tasks' = [seen EXCEPT ![k].pc = "classifying", ![k].calls = 1]
                  /\ aiCalls' = [aiCalls EXCEPT ![text] = @ + 1]
                  /\ UNCHANGED batchResults
  /\ UNCHANGED <<storage, now, ticks, bpc, links, detectionMode, sensitivity, chunk,
                 results, writerOf, linksUsed>>
  /\ UNCHANGED outsideBatch

\* aiManager.classifyClickbait resolves: saveClassification builds its entry and calls set
ClassifierResolves(k, classification) ==
  /\ bpc = "running"
  /\ k \in DOMAIN tasks
  /\ tasks[k].pc = "classifying"
  /\ tasks' = [tasks EXCEPT ![k].pc = "saving",
                            ![k].entry = ClassificationEntry(classification, now)]
  /\ UNCHANGED <<storage, now, ticks, bpc, links, detectionMode, sensitivity, chunk,
                 batchResults, results, aiCalls, writerOf, linksUsed>>
  /\ UNCHANGED outsideBatch

\* aiManager.classifyClickbait rejects: the catch of classifyLink returns an errored result
ClassifierRejects(k) ==
  /\ bpc = "running"
  /\ k \in DOMAIN tasks
  /\ tasks[k].pc = "classifying"
  /\ Return(k, Errored("AI failure"), "error")
  /\ UNCHANGED <<storage, now, ticks, bpc, links, detectionMode, sensitivity, chunk,
                 results, aiCalls, writerOf, linksUsed>>
  /\ UNCHANGED outsideBatch

\* saveClassification: the set has reached the store; enforceMaxSize calls get()
StorageSetDone(k) ==
  /\ bpc = "running"
  /\ k \in DOMAIN tasks
  /\ tasks[k].pc = "saving"
  /\ storage' = StorageSet(storage, classificationKey(links[k]), tasks[k].entry)
  /\ writerOf' = [writerOf EXCEPT ![classificationKey(links[k])] =
                    [text |-> links[k], batch |-> linksUsed, sensitivity |-> sensitivity,
                     stored |-> tasks[k].entry.data,
                     returned |-> Adjusted(tasks[k].entry.data, sensitivity)]]
  /\ tasks' = [tasks EXCEPT ![k].pc = "enforcing", ![k].wrote = TRUE]
  /\ UNCHANGED <<now, ticks, bpc, links, detectionMode, sensitivity, chunk,
                 batchResults, results, aiCalls, linksUsed>>
  /\ UNCHANGED outsideBatch

\* enforceMaxSize: get() returns; within the limit it returns and classifyLink
\* returns the adjusted result, else remove(toRemove) is called
EnforceGetReturns(k) ==
  /\ bpc = "running"
  /\ k \in DOMAIN tasks
  /\ tasks[k].pc = "enforcing"
  /\ \E toRemove \in OverflowChoices(storage) :
       IF toRemove = {}
         THEN Return(k, Adjusted(tasks[k].entry.data, sensitivity), "ai")
         ELSE /\ tasks' = [tasks EXCEPT ![k].pc = "removing", ![k].toRemove = toRemove]
              /\ UNCHANGED batchResults
  /\ UNCHANGED <<storage, now, ticks, bpc, links, detectionMode, sensitivity, chunk,
                 results, aiCalls, writerOf, linksUsed>>
  /\ UNCHANGED outsideBatch

\* enforceMaxSize: the remove has reached the store; classifyLink returns the adjusted result
StorageRemoveDone(k) ==
  /\ bpc = "running"
  /\ k \in DOMAIN tasks
  /\ tasks[k].pc = "removing"
  /\ storage' = StorageRemove(storage, tasks[k].toRemove)
  /\ Return(k, Adjusted(tasks[k].entry.data, sensitivity), "ai")
  /\ UNCHANGED <<now, ticks, bpc, links, detectionMode, sensitivity, chunk,
                 results, aiCalls, writerOf, linksUsed>>
  /\ UNCHANGED outsideBatch

\* await Promise.all(...) resolves: results.push(...batchResults), then the next
\* chunk starts or classifyMultipleLinks returns results
ChunkSettles ==
  /\ bpc = "running"
  /\ \A k \in 1..Len(batchResults) : batchResults[k] # Pending
  /\ results' = results \o batchResults
  /\ chunk' = chunk + CONCURRENT_LIMIT
  /\ IF chunk + CONCURRENT_LIMIT < Len(links)
       THEN /\ tasks' = StartChunk(tasks, chunk + CONCURRENT_LIMIT, Len(links))
            /\ batchResults' = NewBatchResults(chunk + CONCURRENT_LIMIT, Len(links))
            /\ UNCHANGED bpc
       ELSE /\ bpc' = "done"
            /\ UNCHANGED <<tasks, batchResults>>
  /\ UNCHANGED <<storage, now, ticks, links, detectionMode, sensitivity,
                 aiCalls, writerOf, linksUsed>>
  /\ UNCHANGED outsideBatch

\* the cache duration passes
Tick ==
  /\ ticks < MaxTicks
  /\ ticks' = ticks + 1
  /\ now' = now + CACHE_DURATION
  /\ UNCHANGED <<storage, bpc, links, detectionMode, sensitivity, chunk, tasks,
                 batchResults, results, aiCalls, writerOf, linksUsed>>
  /\ UNCHANGED outsideBatch

\* an older summary entry, written before the requests of the model
OldSummaryEntry == [data |-> [summary |-> "old"], timestamp |-> 1, url |-> TextHQ, type |-> "summary"]
InitialStorage == [k \in {summaryKey(TextHQ)} |-> OldSummaryEntry]

InitBatch ==
  /\ storage = InitialStorage
  /\ now = 1000
  /\ ticks = 0
  /\ bpc = "idle"
  /\ links = <<>>
  /\ detectionMode = "regex"
  /\ sensitivity = SENSITIVITY_CONFIG_DEFAULT
  /\ chunk = 0
  /\ tasks = <<>>
  /\ batchResults = <<>>
  /\ results = <<>>
  /\ aiCalls = [t \in Texts |-> 0]
  /\ writerOf = [key \in {classificationKey(t) : t \in Texts} |-> NoEntry]
  /\ linksUsed = 0

LinkLists == UNION {[1..n -> Texts] : n \in 0..MaxLinks}

NextBatch ==
  \/ /\ bpc \in {"idle", "done"}
     /\ \E ls \in LinkLists, mode \in DetectionModes, sens \in Sensitivities :
          ClassifyMultipleLinks(ls, mode, sens)
  \/ \E k \in 1..MaxLinks : CacheReadReturns(k)
  \/ \E k \in 1..MaxLinks, c \in ClassifierOutputs : ClassifierResolves(k, c)
  \/ \E k \in 1..MaxLinks : ClassifierRejects(k)
  \/ \E k \in 1..MaxLinks : StorageSetDone(k)
  \/ \E k \in 1..MaxLinks : EnforceGetReturns(k)
  \/ \E k \in 1..MaxLinks : StorageRemoveDone(k)
  \/ ChunkSettles
  \/ Tick


InitSend ==
  /\ runtimeId \in {"present", "undefined"}
  /\ contextInvalidated = FALSE
  /\ pc = "idle"
  /\ message = "classifyLinks"
  /\ options = Destructure([timeout |-> NotGiven, maxRetries |-> NotGiven, retryDelay |-> NotGiven])
  /\ attempt = 0
  /\ lastError = MsgNone
  /\ outcome = NoOutcome
  /\ sendMessageCalls = 0
  /\ history = <<>>
  /\ elapsed = 0
  /\ orphaned = FALSE
  /\ sends = 0

NextSend ==
  \/ \E m \in Requests, t \in OptTimeouts, r \in OptMaxRetries, d \in OptRetryDelays :
       SafeRuntimeMessage(m, [timeout |-> t, maxRetries |-> r, retryDelay |-> d])
  \/ \E r \in Responses : TransportResolves(r)
  \/ \E e \in TransportErrors : TransportRejects(e)
  \/ TimerFires
  \/ RetryDelayElapsed
  \/ Settle
  \/ \E r \in Responses : LateResponse(r)
  \/ \E how \in {"undefined", "throws"} : InvalidateContext(how)


(***************************************************************************)
(* Properties of safeRuntimeMessage, checked under SpecSend.               *)
(***************************************************************************)
Finished == pc \in {"returned", "thrown"}
Last(h) == h[Len(h)]
ClosedChannelMessages == {MsgChannelClosed, MsgPortClosed, MsgNoReceiver}
TransientFailures == {Thrown(m) : m \in ClosedChannelMessages} \cup {Thrown(ErrTimeout)}
UnknownMessages == {MsgNetwork, MsgNone}

\* C1: a call made while chrome.runtime.id is not present throws CONTEXT_INVALIDATED
\* and invokes chrome.runtime.sendMessage zero times, whatever the request and options.
C1_DeadAtCallThrowsWithoutTransport ==
  [][(pc = "idle" /\ pc' # "idle" /\ runtimeId # "present")
       => /\ pc' = "thrown"
          /\ outcome' = Thrown(ErrContextInvalidated)
          /\ sendMessageCalls' = 0]_vars

C1_Witness ==
  /\ pc = "thrown"
  /\ runtimeId = "undefined"
  /\ outcome = Thrown(ErrContextInvalidated)
  /\ sendMessageCalls = 0
  /\ options.maxRetries = MaxRetriesOpt
  /\ options.timeout = 100

\* C2: when the context stays valid and every attempt of a call fails with a
\* closed-channel message, the call ends after exactly maxRetries+1 transport
\* invocations by throwing MESSAGE_CHANNEL_CLOSED.
C2_AllClosedThrowsChannelClosed ==
  (/\ Finished
   /\ runtimeId = "present"
   /\ history # <<>>
   /\ \A i \in 1..Len(history) : history[i] \in {Thrown(m) : m \in ClosedChannelMessages})
  => /\ sendMessageCalls = options.maxRetries + 1
     /\ Len(history) = options.maxRetries + 1
     /\ outcome = Thrown(ErrChannelClosed)

C2_Witness ==
  /\ pc = "thrown"
  /\ runtimeId = "present"
  /\ outcome = Thrown(ErrChannelClosed)
  /\ options.maxRetries = MaxRetriesOpt
  /\ sendMessageCalls = MaxRetriesOpt + 1
  /\ \A i \in 1..Len(history) : history[i] \in {Thrown(m) : m \in ClosedChannelMessages}

C4_DeadBeforeRetryMakesNoAttempt ==
  [][(pc = "delay" /\ pc' # "delay" /\ runtimeId # "present")
       => /\ pc' = "thrown"
          /\ outcome' = Thrown(ErrContextInvalidated)
          /\ contextInvalidated'
          /\ sendMessageCalls' = sendMessageCalls
          /\ sendMessageCalls = Len(history)
          /\ sendMessageCalls = attempt]_vars

C4_Witness ==
  /\ pc = "thrown"
  /\ runtimeId # "present"
  /\ outcome = Thrown(ErrContextInvalidated)
  /\ contextInvalidated
  /\ sendMessageCalls = 1
  /\ Len(history) = 1
  /\ options.maxRetries = 2
  /\ history[1] \in TransientFailures

\* C5: an attempt that fails with 'Extension context invalidated' ends the call at
\* once with CONTEXT_INVALIDATED, whatever retries remain; no further transport
\* invocation is made and contextInvalidated is set.
C5_PermanentDeathIsNotRetried ==
  (history # <<>> /\ Last(history) = Thrown(MsgContextInvalidated))
  => /\ pc \in {"thrown", "idle"}
     /\ outcome = Thrown(ErrContextInvalidated)
     /\ contextInvalidated
     /\ sendMessageCalls = Len(history)

C5_Witness ==
  /\ pc = "thrown"
  /\ runtimeId = "present"
  /\ Len(history) = 1
  /\ Last(history) = Thrown(MsgContextInvalidated)
  /\ options.maxRetries = 2
  /\ contextInvalidated

\* C6: an attempt that fails with an error that is neither context invalidation,
\* closed channel nor timeout ends the call at once with that same error; no
\* retry is made and contextInvalidated keeps its value.
C6_UnknownErrorIsRethrown ==
  [][\A m \in UnknownMessages :
       (pc = "waiting" /\ history' = Append(history, Thrown(m)))
         => /\ pc' = "thrown"
            /\ outcome' = Thrown(m)
            /\ sendMessageCalls' = sendMessageCalls
            /\ contextInvalidated' = contextInvalidated]_vars

C6_Witness ==
  /\ pc = "thrown"
  /\ outcome = Thrown(MsgNetwork)
  /\ Len(history) = 2
  /\ sendMessageCalls = 2
  /\ options.maxRetries = 2
  /\ ~contextInvalidated

\* C7: when k attempts fail with closed-channel or timeout and the next one
\* succeeds, the call returns that attempt's response after exactly k+1 transport
\* invocations, k <= maxRetries, and nothing is sent after the success.
C7_SuccessAfterTransientFailures ==
  (history # <<>> /\ Last(history).kind = "response")
  => /\ pc \in {"returned", "idle"}
     /\ outcome = Last(history)
     /\ sendMessageCalls = Len(history)
     /\ Len(history) <= options.maxRetries + 1
     /\ \A i \in 1..(Len(history) - 1) : history[i] \in TransientFailures

C7_Witness ==
  /\ pc = "returned"
  /\ Len(history) = 3
  /\ history[1] = Thrown(MsgPortClosed)
  /\ history[2] = Thrown(ErrTimeout)
  /\ outcome = Returned("r2")
  /\ sendMessageCalls = 3

(***************************************************************************)
(* Properties of classifyMultipleLinks and the cache, checked under        *)
(* SpecBatch.                                                              *)
(***************************************************************************)
TaskDone(k) == k \in DOMAIN tasks /\ tasks[k].pc = "done"
\* the value classifyLink returned for link k, before and after its chunk settled
ValueOf(k) == IF k <= chunk THEN results[k].value ELSE batchResults[k - chunk].value

\* C8: when classifyMultipleLinks returns for n links, results has exactly n
\* elements and element i is what the classifyLink invocation of link i returned
\* (its cached record, its regexDetect result, its adjusted AI result or its
\* errored result), whatever the order in which the invocations of a chunk complete.
C8_ResultsAlignedWithLinks ==
  bpc = "done" =>
    /\ Len(results) = Len(links)
    /\ \A i \in 1..Len(links) :
         /\ results[i] # Pending
         /\ results[i].link = i
         /\ tasks[i].via = "regex" => results[i].value = regexDetect(links[i])
         /\ tasks[i].via = "error" => results[i].value = Errored("AI failure")
         /\ tasks[i].via = "cache" => results[i].value = tasks[i].hitOf.stored
         /\ tasks[i].via = "ai" =>
              \E c \in ClassifierOutputs : results[i].value = Adjusted(c, sensitivity)

C8_Witness ==
  /\ bpc = "done"
  /\ links = <<TextAa, TextHQ, TextAa>>
  /\ Len(results) = 3
  /\ tasks[1].via = "ai"
  /\ tasks[2].via = "error"
  /\ tasks[3].via = "cache"
  /\ \A i \in 1..3 : results[i].link = i

C10_MissAndHitIdentical ==
  \A k \in 1..MaxLinks :
    (/\ TaskDone(k)
     /\ tasks[k].via = "cache"
     /\ tasks[k].hitOf.text = links[k]
     /\ tasks[k].hitOf.batch < linksUsed
     /\ tasks[k].hitOf.sensitivity = sensitivity)
      => ValueOf(k) = tasks[k].hitOf.returned

(***************************************************************************)
(* CacheManager called directly: each call runs to its end before the next *)
(* starts (concurrent saves are the steps of classifyLink above).           *)
(***************************************************************************)
\* value?.type
TypeOf(value) == IF "type" \in DOMAIN value THEN value.type ELSE "undefined"

\* clearAll: value?.type === 'classification' || value?.type === 'summary'
IsCacheEntry_Any(value) == TRUE
IsCacheEntry(value) == TypeOf(value) \in {"classification", "summary"}

CacheKeysOf(store) == {k \in DOMAIN store : IsCacheEntry(store[k])}

\* the key of the keepalive ping: '_lastKeepalive'
KeepaliveKey == [kind |-> "_lastKeepalive", hash |-> 0]

\* getSummary(url): result[key].data when stored and valid, else null
getSummary(store, url, t) ==
  LET key == summaryKey(url)
  IN  IF key \in DOMAIN store /\ isValid(store[key], t) THEN store[key].data ELSE NoData

\* the entry saveSummary builds
SummaryEntry(summary, url, t) ==
  [data |-> summary, timestamp |-> t, url |-> url, type |-> "summary"]

\* what aiManager.summarizeArticle resolves with for a url
SummaryOf(url) == [summary |-> "new"]

\* the classification the direct calls save
SavedClassification == CHOOSE c \in ClassifierOutputs : c.isClickbait

NoOp == [kind |-> "none", key |-> NoEntry, ret |-> NoData, at |-> 0]

\* the cache entries among `keys` of `store`, as key and timestamp
EvictedFrom(store, keys) ==
  {[key |-> k, timestamp |-> TimestampOf(store[k])] : k \in keys \cap CacheKeysOf(store)}

\* saveClassification / saveSummary: set({ [key]: entry }), then enforceMaxSize()
Save(kind, key, entry) ==
  /\ cacheOps < MaxCacheOps
  /\ cacheOps' = cacheOps + 1
  /\ LET afterSet == StorageSet(storage, key, entry)
     IN  \E toRemove \in OverflowChoices(afterSet) :
           /\ storage' = StorageRemove(afterSet, toRemove)
           /\ evicted' = evicted \cup EvictedFrom(afterSet, toRemove)
  /\ written' = written \cup {key}
  /\ rewrote' = (rewrote \/ key \in written)
  /\ cacheOp' = [NoOp EXCEPT !.kind = kind, !.key = key]
  /\ UNCHANGED <<now, cleared, advances>>
  /\ UNCHANGED outsideCache

SaveClassification(text, classification) ==
  Save("saveClassification", classificationKey(text), ClassificationEntry(classification, now))

SaveSummary(url) ==
  Save("saveSummary", summaryKey(url), SummaryEntry(SummaryOf(url), url, now))

\* a read that refreshes the timestamp of the entry it returns
Get_TouchesEntry(kind, key, ret) ==
  /\ cacheOp' = [NoOp EXCEPT !.kind = kind, !.key = key, !.ret = ret, !.at = now]
  /\ storage' = IF ret = NoData THEN storage
                ELSE [storage EXCEPT ![key] = [@ EXCEPT !.timestamp = now]]
  /\ UNCHANGED <<now, cacheOps, written, rewrote, evicted, cleared, advances>>
  /\ UNCHANGED outsideCache
\* getClassification / getSummary: the stored entry is read and judged by isValid
Get(kind, key, ret) ==
  /\ cacheOp' = [NoOp EXCEPT !.kind = kind, !.key = key, !.ret = ret, !.at = now]
  /\ UNCHANGED <<storage, now, cacheOps, written, rewrote, evicted, cleared, advances>>
  /\ UNCHANGED outsideCache

GetClassification(text) ==
  Get("getClassification", classificationKey(text), getClassification(storage, text, now))

GetSummary(url) ==
  Get("getSummary", summaryKey(url), getSummary(storage, url, now))

\* clearAll(): the keys of the cache entries are collected and removed
ClearAll ==
  /\ cacheOps < MaxCacheOps
  /\ cacheOps' = cacheOps + 1
  /\ LET cacheKeys == CacheKeysOf(storage)
     IN  /\ storage' = StorageRemove(storage, cacheKeys)
         /\ cacheOp' = [NoOp EXCEPT !.kind = "clearAll",
                          !.ret = [success |-> TRUE, cleared |-> Cardinality(cacheKeys)]]
  /\ cleared' = TRUE
  /\ UNCHANGED <<now, written, rewrote, evicted, advances>>
  /\ UNCHANGED outsideCache

\* the keepalive timer fires: chrome.storage.local.set({ '_lastKeepalive': Date.now() })
KeepalivePing ==
  /\ cacheOps < MaxCacheOps
  /\ cacheOps' = cacheOps + 1
  /\ storage' = StorageSet(storage, KeepaliveKey, [value |-> now])
  /\ cacheOp' = [NoOp EXCEPT !.kind = "ping"]
  /\ UNCHANGED <<now, written, rewrote, evicted, cleared, advances>>
  /\ UNCHANGED outsideCache

\* initialize() -> cleanOldEntries(): every stored value isValid rejects is removed
CleanOldEntries ==
  /\ cacheOps < MaxCacheOps
  /\ cacheOps' = cacheOps + 1
  /\ LET toRemove == {k \in DOMAIN storage : ~isValid(storage[k], now)}
     IN  storage' = StorageRemove(storage, toRemove)
  /\ cacheOp' = [NoOp EXCEPT !.kind = "cleanOldEntries"]
  /\ UNCHANGED <<now, written, rewrote, evicted, cleared, advances>>
  /\ UNCHANGED outsideCache

\* the clock advances by a millisecond, or by a millisecond less than the cache duration
AdvanceSteps == {1, CACHE_DURATION - 1}
\* the latest time of the model: two cache durations
TimeHorizon == 2 * CACHE_DURATION
Advance(d) ==
  /\ advances < MaxAdvances
  /\ now + d <= TimeHorizon
  /\ advances' = advances + 1
  /\ now' = now + d
  /\ UNCHANGED <<storage, cacheOp, cacheOps, written, rewrote, evicted, cleared>>
  /\ UNCHANGED outsideCache

InitCache ==
  /\ cacheOp = NoOp
  /\ cacheOps = 0
  /\ written = {summaryKey(TextHQ)}
  /\ rewrote = FALSE
  /\ evicted = {}
  /\ cleared = FALSE
  /\ advances = 0

NextCache ==
  \/ \E t \in Texts : SaveClassification(t, SavedClassification)
  \/ \E u \in Texts : SaveSummary(u)
  \/ \E t \in Texts : GetClassification(t)
  \/ \E u \in Texts : GetSummary(u)
  \/ ClearAll
  \/ KeepalivePing
  \/ \E d \in AdvanceSteps : Advance(d)

\* the service worker may start again between two calls: initialize() runs
NextCleanup ==
  \/ NextCache
  \/ CleanOldEntries

(***************************************************************************)
(* Properties of the CacheManager, checked under SpecCache.                *)
(***************************************************************************)
CacheSize == Cardinality(CacheKeysOf(storage))
SaveKinds == {"saveClassification", "saveSummary"}
GetKinds == {"getClassification", "getSummary"}

\* C11: after every saveClassification / saveSummary call the storage holds at
\* most MAX_CACHE_SIZE cache entries; once more than MAX_CACHE_SIZE distinct keys
\* have been saved the cache holds exactly MAX_CACHE_SIZE entries, under further
\* writes too, and while every key was saved once the evicted entries are as many
\* as the keys beyond MAX_CACHE_SIZE and none of them is newer than a kept one.
C11_CacheNeverExceedsMax ==
  /\ CacheSize <= MAX_CACHE_SIZE
  /\ (~cleared /\ Cardinality(written) > MAX_CACHE_SIZE) => CacheSize = MAX_CACHE_SIZE
  /\ (~cleared /\ ~rewrote /\ Cardinality(written) > MAX_CACHE_SIZE) =>
       /\ Cardinality(evicted) = Cardinality(written) - MAX_CACHE_SIZE
       /\ \A e \in evicted, k \in CacheKeysOf(storage) :
            e.timestamp <= TimestampOf(storage[k])

C11_Witness ==
  /\ ~cleared
  /\ ~rewrote
  /\ cacheOp.kind \in SaveKinds
  /\ Cardinality(written) = MAX_CACHE_SIZE + 1
  /\ CacheSize = MAX_CACHE_SIZE
  /\ Cardinality(evicted) = 1
  /\ \A e \in evicted, k \in CacheKeysOf(storage) : e.timestamp < TimestampOf(storage[k])

\* C12: getClassification and getSummary return the data of the entry stored
\* under the key when the time since its timestamp is below CACHE_DURATION, and
\* null when it is CACHE_DURATION or more, or when no entry is stored.
C12_ValidUntilCacheDuration ==
  [][(cacheOp' # cacheOp /\ cacheOp'.kind \in GetKinds) =>
       LET key == cacheOp'.key
       IN  IF key \in DOMAIN storage /\ now - storage[key].timestamp < CACHE_DURATION
             THEN cacheOp'.ret = storage[key].data
             ELSE cacheOp'.ret = NoData]_vars

\* a summary read one millisecond before its entry expires
C12_Witness ==
  /\ cacheOp.kind = "getSummary"
  /\ cacheOp.at = now
  /\ cacheOp.key \in DOMAIN storage
  /\ now - storage[cacheOp.key].timestamp = CACHE_DURATION - 1
  /\ cacheOp.ret = storage[cacheOp.key].data

\* C13: clearAll removes every stored entry of type classification or summary,
\* leaves every other key with its value, and returns as `cleared` the number
\* of cache entries that were stored.
C13_ClearAllRemovesOnlyCacheEntries ==
  [][(cacheOp'.kind = "clearAll" /\ cacheOps' = cacheOps + 1) =>
       /\ \A k \in DOMAIN storage :
            IF TypeOf(storage[k]) \in {"classification", "summary"}
              THEN k \notin DOMAIN storage'
              ELSE k \in DOMAIN storage' /\ storage'[k] = storage[k]
       /\ DOMAIN storage' \subseteq DOMAIN storage
       /\ cacheOp'.ret.cleared =
            Cardinality({k \in DOMAIN storage :
                           TypeOf(storage[k]) \in {"classification", "summary"}})]_vars

C13_Witness ==
  /\ cacheOp.kind = "clearAll"
  /\ cacheOp.ret.cleared = MAX_CACHE_SIZE
  /\ DOMAIN storage = {KeepaliveKey}

\* a saveClassification / saveSummary call is made in this step
SaveStep == cacheOp'.kind \in SaveKinds /\ cacheOps' = cacheOps + 1
\* the call before this step was a read that returned the data of a stored entry
AfterHit ==
  cacheOp.kind \in GetKinds /\ cacheOp.ret # NoData /\ cacheOp.key \in DOMAIN storage
\* the entry under `key` is older than every other stored value
StrictlyOldest(store, key) ==
  \A k \in DOMAIN store \ {key} : TimestampOf(store[key]) < TimestampOf(store[k])

C35_CleanupTouchesOnlyCacheEntries ==
  [][(cacheOps' = cacheOps + 1 /\ cacheOp'.kind \in SaveKinds \cup {"cleanOldEntries"}) =>
       /\ \A k \in DOMAIN storage :
            ~IsCacheEntry(storage[k]) => (k \in DOMAIN storage' /\ storage'[k] = storage[k])
       /\ cacheOp'.kind = "cleanOldEntries" =>
            \A k \in DOMAIN storage \ DOMAIN storage' :
              now - TimestampOf(storage[k]) >= CACHE_DURATION
       /\ (cacheOp'.kind \in SaveKinds /\ Cardinality(CacheKeysOf(storage)) < MAX_CACHE_SIZE) =>
            CacheKeysOf(storage) \subseteq DOMAIN storage']_vars


(***************************************************************************)
(* Chunking and per-item failures of classifyMultipleLinks, checked under  *)
(* SpecBatch.                                                              *)
(***************************************************************************)
\* classifyLink invocations of the batch that have started and not returned
Outstanding == {k \in DOMAIN tasks : tasks[k].pc \notin {"todo", "done"}}

\* C14: the links are processed in chunks of CONCURRENT_LIMIT in input order:
\* every link before the current chunk has its result, no link after it has
\* started, so at most CONCURRENT_LIMIT invocations are outstanding, and when
\* the call returns ceil(n / CONCURRENT_LIMIT) chunks have been processed.
C14_ChunksAreSequential ==
  bpc \in {"running", "done"} =>
    /\ chunk % CONCURRENT_LIMIT = 0
    /\ \A k \in 1..Len(links) :
         /\ k <= chunk => tasks[k].pc = "done"
         /\ k > chunk + CONCURRENT_LIMIT => tasks[k].pc = "todo"
         /\ (chunk < k /\ k <= chunk + CONCURRENT_LIMIT) => tasks[k].pc # "todo"
    /\ Cardinality(Outstanding) <= CONCURRENT_LIMIT
    /\ Len(results) = (IF chunk < Len(links) THEN chunk ELSE Len(links))
    /\ bpc = "done" => /\ chunk >= Len(links)
                       /\ chunk < Len(links) + CONCURRENT_LIMIT

\* the last link of a batch of more than one chunk is being classified, alone
C14_Witness ==
  /\ bpc = "running"
  /\ detectionMode = "chrome-ai"
  /\ Len(links) = CONCURRENT_LIMIT + 1
  /\ chunk = CONCURRENT_LIMIT
  /\ Len(results) = CONCURRENT_LIMIT
  /\ Outstanding = {CONCURRENT_LIMIT + 1}
  /\ tasks[CONCURRENT_LIMIT + 1].pc = "classifying"

IsErrored(v) == "error" \in DOMAIN v /\ v.error

\* C15: a link gets the errored result {isClickbait: false, error: true} exactly
\* when the classifier failed for it; every other link gets a result without the
\* error flag, and the call returns a result for every link.
C15_FailuresStayPerItem ==
  /\ \A k \in 1..MaxLinks :
       TaskDone(k) =>
         /\ tasks[k].via = "error" <=> IsErrored(ValueOf(k))
         /\ tasks[k].via = "error" => ~ValueOf(k).isClickbait
         /\ tasks[k].via = "error" => tasks[k].calls = 1
  /\ bpc = "done" =>
       /\ Len(results) = Len(links)
       /\ \A k \in 1..Len(links) : TaskDone(k)

\* the classifier failed for a link of the first chunk; its sibling and the
\* link of the second chunk have their AI results
C15_Witness ==
  /\ bpc = "done"
  /\ Len(links) = CONCURRENT_LIMIT + 1
  /\ tasks[1].via = "error"
  /\ IsErrored(results[1].value)
  /\ \A k \in 2..Len(links) : tasks[k].via = "ai" /\ ~IsErrored(results[k].value)


(***************************************************************************)
(* The coordinator's listener: chrome.runtime.onMessage -> handleAsync ->  *)
(* handleMessage, the keepalive timer and the deadline of a request.       *)
(***************************************************************************)
\* request.action; "malformed" is a request without properties (null)
GuardedActions == {"classifyLinks", "getSummary"}
CacheActions == {"clearCache", "getCacheStats"}
RequestActions == GuardedActions \cup CacheActions \cup {"other", "malformed"}

\* { error: true, message }
ErrorResponse(text, ms) == [error |-> TRUE, message |-> [text |-> text, ms |-> ms]]
\* what a handler resolves with
Result(kind) == [kind |-> kind]

\* getClassificationTimeout(linkCount)
getClassificationTimeout(linkCount) ==
  Max(TIMEOUT_CONFIG_CLASSIFICATION_BASE,
      TIMEOUT_CONFIG_CLASSIFICATION_BASE + (linkCount * TIMEOUT_CONFIG_CLASSIFICATION_PER_LINK))

\* TIMEOUT_MS of the Promise.race a guarded action runs in
TimerOf(action, n) ==
  IF action = "classifyLinks" THEN getClassificationTimeout(n)
  ELSE IF action = "getSummary" THEN TIMEOUT_CONFIG_SUMMARY
  ELSE 0

NoMessage ==
  [action |-> "none", n |-> 0, pc |-> "none", timerMs |-> 0, timedOut |-> FALSE,
   responses |-> <<>>, answered |-> FALSE]

\* how an invocation of sendResponse ends: it returns, its first invocation
\* throws, or every invocation throws
CallbackBehaviours == {"returns", "throwsOnce", "throws"}

\* startKeepalive(): if (this.keepaliveInterval) return; this.keepaliveInterval = setInterval(...)
startKeepalive(interval) == TRUE
\* stopKeepalive(): clearInterval; this.keepaliveInterval = null
stopKeepalive(interval) == FALSE
\* startKeepalive() calling setInterval whether or not a timer is active
TimersAfterStart_Unguarded(interval, n) == n + 1
\* the timers alive after startKeepalive(): setInterval is reached only when
\* this.keepaliveInterval is not set
TimersAfterStart(interval, n) == IF interval THEN n ELSE n + 1
\* the timers alive after stopKeepalive(): clearInterval is reached only when
\* this.keepaliveInterval is set
TimersAfterStop(interval, n) == IF interval THEN n - 1 ELSE n

\* handleAsync after handleMessage resolved with `result`: sendResponse(result) and
\* stopKeepalive(); when sendResponse throws, the catch calls
\* sendResponse(errorResponse) and stopKeepalive()
Respond(m, rec, result, cb, interval) ==
  LET first == Append(rec.responses, result)
      again == Append(first, ErrorResponse("sendResponse threw", 0))
  IN  /\ msgs' = [msgs EXCEPT ![m] =
                    [rec EXCEPT !.pc = "done",
                                !.responses = IF cb = "returns" THEN first ELSE again,
                                !.answered = (cb # "throws")]]
      /\ keepaliveInterval' = IF cb = "throws" THEN interval ELSE stopKeepalive(interval)
      /\ timers' = IF cb = "throws" THEN timers ELSE TimersAfterStop(interval, timers)

\* handleAsync when handleMessage rejected: the catch calls
\* sendResponse(errorResponse) and stopKeepalive()
RespondFromCatch(m, rec, text, cb, interval) ==
  /\ msgs' = [msgs EXCEPT ![m] =
                [rec EXCEPT !.pc = "done",
                            !.responses = Append(rec.responses, ErrorResponse(text, 0)),
                            !.answered = (cb = "returns")]]
  /\ keepaliveInterval' = IF cb = "returns" THEN stopKeepalive(interval) ELSE interval
  /\ timers' = IF cb = "returns" THEN TimersAfterStop(interval, timers) ELSE timers

\* service.initialize() settles: this.initialized = true, or this.initError = error
InitializeSettles(ok) ==
  /\ initPc = "pending"
  /\ initPc' = "settled"
  /\ initialized' = ok
  /\ initError' = ~ok
  /\ UNCHANGED <<keepaliveInterval, timers, msgs>>
  /\ UNCHANGED outsideService

\* handleMessage without the check of this.initialized
Deliver_NoInitCheck(m, action, n, cb) ==
  /\ msgs[m].pc = "none"
  /\ \A j \in 1..(m - 1) : msgs[j].pc # "none"
  /\ action = "classifyLinks" \/ n = 0
  /\ LET rec == [NoMessage EXCEPT !.action = action, !.n = n]
     IN  IF action = "malformed"
           THEN RespondFromCatch(m, rec, "Cannot read properties", cb, keepaliveInterval)
         ELSE IF action = "other"
           THEN Respond(m, rec, ErrorResponse("Unknown action", 0), cb, keepaliveInterval)
         ELSE /\ msgs' = [msgs EXCEPT ![m] =
                            [rec EXCEPT !.pc = "working", !.timerMs = TimerOf(action, n)]]
              /\ keepaliveInterval' = IF action \in GuardedActions
                                        THEN startKeepalive(keepaliveInterval)
                                        ELSE keepaliveInterval
              /\ timers' = IF action \in GuardedActions
                             THEN TimersAfterStart(keepaliveInterval, timers)
                             ELSE timers
  /\ UNCHANGED <<initialized, initError, initPc>>
  /\ UNCHANGED outsideService
\* the listener is triggered for message m: handleMessage runs to its first await,
\* or to its return when it awaits nothing
Deliver(m, action, n, cb) ==
  /\ msgs[m].pc = "none"
  /\ \A j \in 1..(m - 1) : msgs[j].pc # "none"
  /\ action = "classifyLinks" \/ n = 0
  /\ LET rec == [NoMessage EXCEPT !.action = action, !.n = n]
     IN  IF action = "malformed"
           THEN RespondFromCatch(m, rec, "Cannot read properties", cb, keepaliveInterval)
         ELSE IF ~initialized /\ action \notin CacheActions
           THEN Respond(m, rec,
                        ErrorResponse(IF initError THEN "Service failed to initialize"
                                                   ELSE "Service not initialized", 0),
                        cb, keepaliveInterval)
         ELSE IF action = "other"
           THEN Respond(m, rec, ErrorResponse("Unknown action", 0), cb, keepaliveInterval)
         ELSE /\ msgs' = [msgs EXCEPT ![m] =
                            [rec EXCEPT !.pc = "working", !.timerMs = TimerOf(action, n)]]
              /\ keepaliveInterval' = IF action \in GuardedActions
                                        THEN startKeepalive(keepaliveInterval)
                                        ELSE keepaliveInterval
              /\ timers' = IF action \in GuardedActions
                             THEN TimersAfterStart(keepaliveInterval, timers)
                             ELSE timers
  /\ UNCHANGED <<initialized, initError, initPc>>
  /\ UNCHANGED outsideService

\* the awaited call of handleMessage resolves: result is returned and sent
WorkResolves(m, cb) ==
  /\ msgs[m].pc = "working"
  /\ Respond(m, msgs[m], Result(msgs[m].action), cb, keepaliveInterval)
  /\ UNCHANGED <<initialized, initError, initPc>>
  /\ UNCHANGED outsideService

\* clearAll() or getStats() rejects (chrome.storage.local fails): the catch of
\* handleMessage returns { error: true, message }
WorkRejects(m, cb) ==
  /\ msgs[m].pc = "working"
  /\ msgs[m].action \in CacheActions
  /\ Respond(m, msgs[m], ErrorResponse("storage failed", 0), cb, keepaliveInterval)
  /\ UNCHANGED <<initialized, initError, initPc>>
  /\ UNCHANGED outsideService

\* a guarded action awaited without the race against a timer
DeadlineElapses_Never(m, cb) == FALSE
\* the timer of the Promise.race fires first: the race rejects and the catch of
\* handleMessage returns { error: true, message: 'Classification timed out after ...ms' }
DeadlineElapses(m, cb) ==
  /\ msgs[m].pc = "working"
  /\ msgs[m].action \in GuardedActions
  /\ Respond(m, [msgs[m] EXCEPT !.timedOut = TRUE],
             ErrorResponse(IF msgs[m].action = "classifyLinks"
                             THEN "Classification timed out after"
                             ELSE "Summary generation timed out after",
                           msgs[m].timerMs),
             cb, keepaliveInterval)
  /\ UNCHANGED <<initialized, initError, initPc>>
  /\ UNCHANGED outsideService

InitService ==
  /\ initialized = FALSE
  /\ initError = FALSE
  /\ initPc = "pending"
  /\ keepaliveInterval = FALSE
  /\ timers = 0
  /\ msgs = [m \in 1..MaxMessages |-> NoMessage]

NextService ==
  \/ \E ok \in BOOLEAN : InitializeSettles(ok)
  \/ \E m \in 1..MaxMessages, a \in RequestActions, n \in 0..MaxRequestLinks,
        cb \in CallbackBehaviours : Deliver(m, a, n, cb)
  \/ \E m \in 1..MaxMessages, cb \in CallbackBehaviours : WorkResolves(m, cb)
  \/ \E m \in 1..MaxMessages, cb \in CallbackBehaviours : WorkRejects(m, cb)
  \/ \E m \in 1..MaxMessages, cb \in CallbackBehaviours : DeadlineElapses(m, cb)

\* the requester's safeRuntimeMessage when the transport delivers `response`
DeliveredToCaller(response) == Returned(response)

(***************************************************************************)
(* Properties of the listener, checked under SpecService.                  *)
(***************************************************************************)
OutstandingGuarded ==
  {m \in 1..MaxMessages : msgs[m].pc = "working" /\ msgs[m].action \in GuardedActions}

\* C16: while a classifyLinks or getSummary message is being handled, the
\* keepalive timer is active.
C16_KeepaliveWhileGuardedOutstanding ==
  OutstandingGuarded # {} => keepaliveInterval

\* C18: a classifyLinks message of n links whose deadline elapsed ran under the
\* deadline base + perLink * n, and what its requester gets is the TIMEOUT error
\* a timed-out send throws.
C18_DeadlineReachesCallerAsTimeout ==
  \A m \in 1..MaxMessages :
    (msgs[m].pc = "done" /\ msgs[m].action = "classifyLinks" /\ msgs[m].timedOut) =>
      /\ msgs[m].timerMs = TIMEOUT_CONFIG_CLASSIFICATION_BASE
                             + TIMEOUT_CONFIG_CLASSIFICATION_PER_LINK * msgs[m].n
      /\ DeliveredToCaller(msgs[m].responses[1]) = Thrown(ErrTimeout)

\* C19: for every message the listener has finished with, sendResponse was
\* invoked exactly once.
C19_SendResponseExactlyOnce ==
  \A m \in 1..MaxMessages : msgs[m].pc = "done" => Len(msgs[m].responses) = 1

Received == {m \in 1..MaxMessages : msgs[m].pc # "none"}
\* every received message got a response through a sendResponse that returned
AllAnswered == Received # {} /\ \A m \in Received : msgs[m].answered

\* C31: at most one keepalive timer is alive at any time, the handle
\* this.keepaliveInterval is set exactly when one is, and once every received
\* message has been answered none is alive.
C31_AtMostOneTimerNoneWhenAnswered ==
  /\ timers \in {0, 1}
  /\ keepaliveInterval <=> (timers = 1)
  /\ AllAnswered => (timers = 0 /\ ~keepaliveInterval)

IsErrorResponse(r) == "error" \in DOMAIN r

\* C36: a message delivered while this.initialized is false is answered at once
\* with an { error: true } response, no work is awaited for it and no keepalive
\* timer is started, unless its action is clearCache or getCacheStats, whose
\* cache call is then awaited as when the service is initialized.
C36_UninitializedAnswersErrorOnly ==
  [][\A m \in 1..MaxMessages, a \in RequestActions, n \in 0..MaxRequestLinks,
        cb \in CallbackBehaviours :
       (Deliver(m, a, n, cb) /\ ~initialized) =>
         IF a \in CacheActions
           THEN /\ msgs'[m].pc = "working"
                /\ msgs'[m].responses = <<>>
                /\ timers' = timers
           ELSE /\ msgs'[m].pc = "done"
                /\ IsErrorResponse(msgs'[m].responses[1])
                /\ msgs'[m].timerMs = 0
                /\ timers' <= timers
                /\ (keepaliveInterval' => keepaliveInterval)]_vars

\* initialization has failed; a classifyLinks message was answered with the error
\* and never worked on, and a getCacheStats message was served
C36_Witness ==
  /\ ~initialized
  /\ initError
  /\ \E m1, m2 \in 1..MaxMessages :
       /\ msgs[m1].action = "classifyLinks"
       /\ msgs[m1].pc = "done"
       /\ msgs[m1].responses =
            <<ErrorResponse("Service failed to initialize", 0)>>
       /\ msgs[m1].timerMs = 0
       /\ msgs[m2].action = "getCacheStats"
       /\ msgs[m2].pc = "done"
       /\ msgs[m2].responses = <<Result("getCacheStats")>>

\* two guarded messages were received while the service was initialized, one was
\* answered from the catch of handleAsync after its first sendResponse threw, the
\* other through the deadline, and no timer is left
C31_Witness ==
  /\ AllAnswered
  /\ timers = 0
  /\ \E m1, m2 \in Received :
       /\ m1 # m2
       /\ msgs[m1].action \in GuardedActions /\ msgs[m2].action \in GuardedActions
       /\ msgs[m1].timerMs > 0 /\ msgs[m2].timerMs > 0
       /\ Len(msgs[m1].responses) = 2
       /\ msgs[m2].timedOut


(***************************************************************************)
(* classifyLink and getSummaryForUrl, one invocation at a time, when a call *)
(* of chrome.storage.local may reject.                                     *)
(***************************************************************************)
ItemOps == {"classifyLink", "getSummaryForUrl"}

NoItem ==
  [op |-> "none", mode |-> "regex", sens |-> 0, text |-> <<>>, pc |-> "idle",
   computed |-> NoData, value |-> NoData, fault |-> "none", invoked |-> 0]

\* 'Unable to generate summary. ' + error.message
UnableToSummarize == [summary |-> "Unable to generate summary."]

\* the value the catch of the invocation returns
CaughtValue(op) == IF op = "classifyLink" THEN Errored("storage failed") ELSE UnableToSummarize

\* the value the invocation returns for what it computed
FreshValue(it) ==
  IF it.op = "classifyLink" THEN Adjusted(it.computed, it.sens) ELSE it.computed

ItemReturns(it, v) == item' = [it EXCEPT !.pc = "done", !.value = v]

\* classifyLink(link) / getSummaryForUrl(url) up to the get of the cache read
StartItem(op, mode, sens, text) ==
  /\ item.pc \in {"idle", "done"}
  /\ itemsRun < MaxItems
  /\ itemsRun' = itemsRun + 1
  /\ op = "getSummaryForUrl" => (mode = "chrome-ai" /\ sens = 0)
  /\ item' = [NoItem EXCEPT !.op = op, !.mode = mode, !.sens = sens, !.text = text,
                            !.pc = "reading"]
  /\ UNCHANGED storage
  /\ UNCHANGED outsideFault

\* the get of getClassification / getSummary settles
ReadSettles(ok) ==
  /\ item.pc = "reading"
  /\ IF ~ok
       THEN ItemReturns([item EXCEPT !.fault = "read"], CaughtValue(item.op))
     ELSE IF item.op = "classifyLink"
       THEN LET cached == getClassification(storage, item.text, now)
            IN  IF cached # NoData /\ item.mode = "chrome-ai"
                  THEN ItemReturns(item, cached)
                ELSE IF item.mode = "regex"
                  THEN ItemReturns([item EXCEPT !.invoked = 1], regexDetect(item.text))
                ELSE item' = [item EXCEPT !.pc = "computing", !.invoked = 1]
     ELSE LET cached == getSummary(storage, item.text, now)
          IN  IF cached # NoData
                THEN ItemReturns(item, cached)
                ELSE item' = [item EXCEPT !.pc = "computing", !.invoked = 1]
  /\ UNCHANGED <<storage, itemsRun>>
  /\ UNCHANGED outsideFault

\* aiManager.classifyClickbait, or fetchAndParse and summarizeArticle, settle
ComputeSettles(ok, classification) ==
  /\ item.pc = "computing"
  /\ IF ~ok
       THEN ItemReturns(item, IF item.op = "classifyLink" THEN Errored("AI failure")
                                                         ELSE UnableToSummarize)
       ELSE item' = [item EXCEPT !.pc = "saving",
                                 !.computed = IF item.op = "classifyLink"
                                                THEN classification
                                                ELSE SummaryOf(item.text)]
  /\ UNCHANGED <<storage, itemsRun>>
  /\ UNCHANGED outsideFault

\* the set of saveClassification / saveSummary settles
WriteSettles(ok) ==
  /\ item.pc = "saving"
  /\ IF ~ok
       THEN /\ ItemReturns([item EXCEPT !.fault = "write"], CaughtValue(item.op))
            /\ UNCHANGED storage
       ELSE /\ storage' =
                 IF item.op = "classifyLink"
                   THEN StorageSet(storage, classificationKey(item.text),
                                   ClassificationEntry(item.computed, now))
                   ELSE StorageSet(storage, summaryKey(item.text),
                                   SummaryEntry(item.computed, item.text, now))
            /\ item' = [item EXCEPT !.pc = "enforcing"]
  /\ UNCHANGED itemsRun
  /\ UNCHANGED outsideFault

\* enforceMaxSize settles: its get and, beyond the limit, its remove
EnforceSettles(ok) ==
  /\ item.pc = "enforcing"
  /\ IF ~ok
       THEN /\ ItemReturns([item EXCEPT !.fault = "enforce"], CaughtValue(item.op))
            /\ UNCHANGED storage
       ELSE /\ \E toRemove \in OverflowChoices(storage) :
                 storage' = StorageRemove(storage, toRemove)
            /\ ItemReturns(item, FreshValue(item))
  /\ UNCHANGED itemsRun
  /\ UNCHANGED outsideFault

InitFault ==
  /\ item = NoItem
  /\ itemsRun = 0

NextFault ==
  \/ \E op \in ItemOps, mode \in DetectionModes, sens \in Sensitivities, t \in Texts :
       StartItem(op, mode, sens, t)
  \/ \E ok \in BOOLEAN : ReadSettles(ok)
  \/ \E ok \in BOOLEAN, c \in ClassifierOutputs : ComputeSettles(ok, c)
  \/ \E ok \in BOOLEAN : WriteSettles(ok)
  \/ \E ok \in BOOLEAN : EnforceSettles(ok)

\* C17: an invocation during which a call of the storage failed still returns
\* what a cache miss returns: the classifier or summarizer was invoked and its
\* fresh result is the returned value, which carries no error.
C17_StorageFaultsDegradeToMiss ==
  (item.pc = "done" /\ item.fault # "none") =>
    /\ item.invoked = 1
    /\ item.computed # NoData
    /\ item.value = FreshValue(item)
    /\ ~IsErrored(item.value)
    /\ item.value # UnableToSummarize


(***************************************************************************)
(* BBContentManager: scanning, badges, summary prefetch and hover, with    *)
(* safeRuntimeMessage reduced to its outcome: a response or a thrown kind. *)
(***************************************************************************)
PageLinks == 1..MaxPageLinks

\* the kinds safeRuntimeMessage throws, and any other error
ThrownKinds == {"CONTEXT_INVALIDATED", "MESSAGE_CHANNEL_CLOSED", "TIMEOUT", "other"}

\* what a getSummary request answers: {error: true, ...} from handleMessage, or
\* what getSummaryForUrl returned: '', a summary, or the 'Unable to generate
\* summary. ...' of its catch
SummaryResponses == {"error", "empty", "text", "unable"}

\* CONTEXT_INVALIDATED is thrown for an invalidated context only
MayThrow(kind) == kind = "CONTEXT_INVALIDATED" => ~isExtensionContextValid

markBadgesAsInactive(b) ==
  [l \in PageLinks |-> IF b[l] = "active" THEN "inactive" ELSE b[l]]

\* prefetchSummary(url, indicator) sends a request for these of the flagged links
PrefetchStarts(flagged) ==
  {l \in flagged : summaryCache[l] = "absent" /\ summaryLoadingStatus[l] # "loading"}

\* the value the summary cache keeps for a response
CachedFor(response) == IF response \in {"empty", "unable"} THEN response ELSE "text"

\* scanPageForLinks without the test of isScanning
scanPageForLinks_Unguarded ==
  /\ anchors \ processedLinks # {}
  /\ isScanning' = TRUE
  /\ scanBatch' = anchors \ processedLinks
  /\ UNCHANGED <<processedLinks, badges, summaryLoadingStatus, summaryCache, prefetching,
                 hovering, rescans, handledDead>>
  /\ UNCHANGED <<clickbaitCount, anchors>>
  /\ UNCHANGED scanTimeout
  /\ UNCHANGED outsideContent

\* scanPageForLinks up to the await of processLinks
scanPageForLinks ==
  /\ ~isScanning
  /\ anchors \ processedLinks # {}
  /\ isScanning' = TRUE
  /\ scanBatch' = anchors \ processedLinks
  /\ UNCHANGED <<processedLinks, badges, summaryLoadingStatus, summaryCache, prefetching,
                 hovering, rescans, handledDead>>
  /\ UNCHANGED <<clickbaitCount, anchors>>
  /\ UNCHANGED scanTimeout
  /\ UNCHANGED outsideContent

\* processLinks: the classifyLinks request answers with an array of results
ClassifyReturns(flagged) ==
  /\ isScanning
  /\ isExtensionContextValid
  /\ flagged \subseteq scanBatch
  /\ badges' = [l \in PageLinks |-> IF l \in flagged THEN "active" ELSE badges[l]]
  /\ summaryLoadingStatus' =
       [l \in PageLinks |-> IF l \in PrefetchStarts(flagged) THEN "loading"
                                                             ELSE summaryLoadingStatus[l]]
  /\ prefetching' =
       [l \in PageLinks |-> IF l \in PrefetchStarts(flagged) THEN prefetching[l] + 1
                                                             ELSE prefetching[l]]
  /\ processedLinks' = processedLinks \cup scanBatch
  /\ isScanning' = FALSE
  /\ scanBatch' = {}
  /\ UNCHANGED <<summaryCache, hovering, rescans, handledDead>>
  /\ clickbaitCount' = clickbaitCount + Cardinality(flagged)
  /\ UNCHANGED anchors
  /\ scanTimeout' = (scanTimeout \/ flagged # {})
  /\ UNCHANGED outsideContent

\* an error response taken for an array of results without a flagged link
ClassifyReturnsError_MarksProcessed ==
  /\ isScanning
  /\ isExtensionContextValid
  /\ isScanning' = FALSE
  /\ scanBatch' = {}
  /\ processedLinks' = processedLinks \cup scanBatch
  /\ UNCHANGED <<badges, summaryLoadingStatus, summaryCache, prefetching, hovering, rescans,
                 clickbaitCount, anchors, handledDead>>
  /\ UNCHANGED scanTimeout
  /\ UNCHANGED outsideContent

\* processLinks: the request answers {error: true, ...}
ClassifyReturnsError ==
  /\ isScanning
  /\ isExtensionContextValid
  /\ isScanning' = FALSE
  /\ scanBatch' = {}
  /\ UNCHANGED <<processedLinks, badges, summaryLoadingStatus, summaryCache, prefetching,
                 hovering, rescans, handledDead>>
  /\ UNCHANGED <<clickbaitCount, anchors>>
  /\ UNCHANGED scanTimeout
  /\ UNCHANGED outsideContent

\* processLinks: safeRuntimeMessage throws
ClassifyThrows(kind) ==
  /\ isScanning
  /\ MayThrow(kind)
  /\ IF kind = "CONTEXT_INVALIDATED"
       THEN /\ badges' = markBadgesAsInactive(badges)
            /\ handledDead' = handledDead \cup {"classifyLinks"}
       ELSE UNCHANGED <<badges, handledDead>>
  /\ isScanning' = FALSE
  /\ scanBatch' = {}
  /\ UNCHANGED <<processedLinks, summaryLoadingStatus, summaryCache, prefetching, hovering,
                 rescans>>
  /\ UNCHANGED <<clickbaitCount, anchors>>
  /\ UNCHANGED scanTimeout
  /\ UNCHANGED outsideContent

\* prefetchSummary: the getSummary request answers
PrefetchReturns(l, response) ==
  /\ prefetching[l] > 0
  /\ isExtensionContextValid
  /\ prefetching' = [prefetching EXCEPT ![l] = @ - 1]
  /\ summaryLoadingStatus' =
       [summaryLoadingStatus EXCEPT ![l] = IF response = "error" THEN "error" ELSE "ready"]
  /\ summaryCache' = [summaryCache EXCEPT ![l] = CachedFor(response)]
  /\ UNCHANGED <<isScanning, scanBatch, processedLinks, badges, hovering, rescans,
                 handledDead>>
  /\ UNCHANGED <<clickbaitCount, anchors>>
  /\ UNCHANGED scanTimeout
  /\ UNCHANGED outsideContent

\* prefetchSummary: safeRuntimeMessage throws
PrefetchThrows(l, kind) ==
  /\ prefetching[l] > 0
  /\ MayThrow(kind)
  /\ prefetching' = [prefetching EXCEPT ![l] = @ - 1]
  /\ summaryLoadingStatus' = [summaryLoadingStatus EXCEPT ![l] = "error"]
  /\ summaryCache' = IF kind = "other" THEN summaryCache
                                       ELSE [summaryCache EXCEPT ![l] = "text"]
  /\ handledDead' = IF kind = "CONTEXT_INVALIDATED" THEN handledDead \cup {"prefetch"}
                                                    ELSE handledDead
  /\ UNCHANGED <<isScanning, scanBatch, processedLinks, badges, hovering, rescans>>
  /\ UNCHANGED <<clickbaitCount, anchors>>
  /\ UNCHANGED scanTimeout
  /\ UNCHANGED outsideContent

\* mouseenter on the badge of l, on the branch that sends a getSummary request
HoverStarts(l) ==
  /\ badges[l] # "absent"
  /\ summaryCache[l] \in {"absent", "empty"}
  /\ summaryLoadingStatus[l] = "none"
  /\ ~hovering[l]
  /\ hovering' = [hovering EXCEPT ![l] = TRUE]
  /\ UNCHANGED <<isScanning, scanBatch, processedLinks, badges, summaryLoadingStatus,
                 summaryCache, prefetching, rescans, handledDead>>
  /\ UNCHANGED <<clickbaitCount, anchors>>
  /\ scanTimeout' = TRUE
  /\ UNCHANGED outsideContent

\* the hover request answers
HoverReturns(l, response) ==
  /\ hovering[l]
  /\ isExtensionContextValid
  /\ hovering' = [hovering EXCEPT ![l] = FALSE]
  /\ summaryCache' = [summaryCache EXCEPT ![l] = CachedFor(response)]
  /\ UNCHANGED <<isScanning, scanBatch, processedLinks, badges, summaryLoadingStatus,
                 prefetching, rescans, handledDead>>
  /\ UNCHANGED <<clickbaitCount, anchors>>
  /\ scanTimeout' = TRUE
  /\ UNCHANGED outsideContent

\* the hover request throws: handleContextInvalidation, handleServiceWorkerFailure
\* or the plain message
HoverThrows(l, kind) ==
  /\ hovering[l]
  /\ MayThrow(kind)
  /\ hovering' = [hovering EXCEPT ![l] = FALSE]
  /\ IF kind = "CONTEXT_INVALIDATED"
       THEN /\ badges' = markBadgesAsInactive(badges)
            /\ handledDead' = handledDead \cup {"hover"}
       ELSE UNCHANGED <<badges, handledDead>>
  /\ UNCHANGED <<isScanning, scanBatch, processedLinks, summaryLoadingStatus, summaryCache,
                 prefetching, rescans>>
  /\ UNCHANGED <<clickbaitCount, anchors>>
  /\ scanTimeout' = TRUE
  /\ UNCHANGED outsideContent

\* handleMessage({action: 'rescan'}): the badges and the per-link state are
\* dropped, the summary cache is kept, and a scan starts unless one is running
Rescan ==
  /\ isExtensionContextValid
  /\ rescans < MaxRescans
  /\ rescans' = rescans + 1
  /\ badges' = [l \in PageLinks |-> "absent"]
  /\ processedLinks' = {}
  /\ summaryLoadingStatus' = [l \in PageLinks |-> "none"]
  /\ IF isScanning
       THEN UNCHANGED <<isScanning, scanBatch>>
       ELSE /\ isScanning' = TRUE
            /\ scanBatch' = anchors
  /\ UNCHANGED <<summaryCache, prefetching, hovering, handledDead>>
  /\ clickbaitCount' = 0
  /\ UNCHANGED anchors
  /\ scanTimeout' = (scanTimeout \/ \E l \in PageLinks : badges[l] # "absent")
  /\ UNCHANGED outsideContent

\* the page inserts the link l; the MutationObserver will ask for a scan
LinkAppears(l) ==
  /\ l \notin anchors
  /\ anchors' = anchors \cup {l}
  /\ UNCHANGED <<isScanning, scanBatch, processedLinks, badges, summaryLoadingStatus,
                 summaryCache, prefetching, hovering, rescans, clickbaitCount, handledDead>>
  /\ scanTimeout' = TRUE
  /\ UNCHANGED outsideContent

\* the debounce timer of the MutationObserver fires: scanPageForLinks() is called
\* and returns at once when a scan is in progress or no link is left to process
DebounceFires ==
  /\ scanTimeout
  /\ scanTimeout' = FALSE
  /\ IF ~isScanning /\ anchors \ processedLinks # {}
       THEN /\ isScanning' = TRUE
            /\ scanBatch' = anchors \ processedLinks
       ELSE UNCHANGED <<isScanning, scanBatch>>
  /\ UNCHANGED <<processedLinks, badges, summaryLoadingStatus, summaryCache, prefetching,
                 hovering, rescans, clickbaitCount, anchors, handledDead>>
  /\ UNCHANGED outsideContent

InitContent ==
  /\ isScanning = FALSE
  /\ scanBatch = {}
  /\ processedLinks = {}
  /\ badges = [l \in PageLinks |-> "absent"]
  /\ summaryLoadingStatus = [l \in PageLinks |-> "none"]
  /\ summaryCache = [l \in PageLinks |-> "absent"]
  /\ prefetching = [l \in PageLinks |-> 0]
  /\ hovering = [l \in PageLinks |-> FALSE]
  /\ rescans = 0
  /\ clickbaitCount = 0
  /\ anchors = {1}
  /\ scanTimeout = FALSE
  /\ handledDead = {}

NextContent ==
  \/ scanPageForLinks
  \/ \E flagged \in SUBSET PageLinks : ClassifyReturns(flagged)
  \/ ClassifyReturnsError
  \/ \E kind \in ThrownKinds : ClassifyThrows(kind)
  \/ \E l \in PageLinks, response \in SummaryResponses : PrefetchReturns(l, response)
  \/ \E l \in PageLinks, kind \in ThrownKinds : PrefetchThrows(l, kind)
  \/ \E l \in PageLinks : HoverStarts(l)
  \/ \E l \in PageLinks, response \in SummaryResponses : HoverReturns(l, response)
  \/ \E l \in PageLinks, kind \in ThrownKinds : HoverThrows(l, kind)
  \/ Rescan
  \/ \E l \in PageLinks : LinkAppears(l)
  \/ \E how \in {"undefined", "throws"} : InvalidateContext(how)

\* C20: once the CONTEXT_INVALIDATED failure of any request (classification
\* batch, summary prefetch, hover summary) has been handled, no badge of the
\* page is left active: every badge is disabled.
C20_ChannelDeadDisablesEveryBadge ==
  handledDead # {} => \A l \in PageLinks : badges[l] # "active"


\* the failures a later attempt may overcome
TransientKinds == {"MESSAGE_CHANNEL_CLOSED", "TIMEOUT"}

\* C21: when the request of an item fails with MESSAGE_CHANNEL_CLOSED or TIMEOUT,
\* the item is back where it was before the attempt (a flagged link with no
\* loading status and no summary text after a summary request, unprocessed
\* links after a batch), no other link changes and no badge is disabled.
C21_TransientFailureRevertsItem ==
  [][\A kind \in TransientKinds :
       /\ \A l \in PageLinks :
            PrefetchThrows(l, kind) =>
              /\ summaryLoadingStatus'[l] = "none"
              /\ summaryCache'[l] = "absent"
              /\ \A o \in PageLinks \ {l} :
                   /\ summaryLoadingStatus'[o] = summaryLoadingStatus[o]
                   /\ summaryCache'[o] = summaryCache[o]
              /\ badges' = badges
       /\ \A l \in PageLinks :
            HoverThrows(l, kind) =>
              /\ summaryLoadingStatus' = summaryLoadingStatus
              /\ summaryCache' = summaryCache
              /\ badges' = badges
       /\ ClassifyThrows(kind) =>
            /\ processedLinks' = processedLinks
            /\ badges' = badges
            /\ summaryLoadingStatus' = summaryLoadingStatus
            /\ summaryCache' = summaryCache]_vars

\* the summary attempt of the badge of l ended in an error and none is running
SummaryErrored(l) ==
  /\ badges[l] # "absent"
  /\ summaryLoadingStatus[l] = "error"
  /\ prefetching[l] = 0
  /\ ~hovering[l]

\* C22: a link whose summary attempt ended in an error sends a new getSummary
\* request at the next hover over its badge.
C22_ErroredRetriesOnHover ==
  \A l \in PageLinks : SummaryErrored(l) => ENABLED HoverStarts(l)

(***************************************************************************)
(* More properties of safeRuntimeMessage, checked under SpecSend.          *)
(***************************************************************************)
\* the two places where safeRuntimeMessage calls isExtensionContextValid(): at
\* its start and after a retry delay
ProbeIsCalled == (pc = "idle" /\ pc' # "idle") \/ (pc = "delay" /\ pc' # "delay")

\* C23: isExtensionContextValid() answers true exactly when chrome.runtime.id is
\* present; when reading the id throws, it answers false instead of throwing
\* (the call ends with CONTEXT_INVALIDATED, not with the exception); and it
\* changes nothing: chrome.runtime.id stays, and contextInvalidated stays
\* whenever the answer is true.
C23_ProbeIsExactAndPure ==
  [][ProbeIsCalled =>
       /\ runtimeId' = runtimeId
       /\ (runtimeId = "present") <=> (pc' = "waiting")
       /\ (runtimeId = "present") => contextInvalidated' = contextInvalidated
       /\ (runtimeId # "present") => /\ pc' = "thrown"
                                     /\ outcome' = Thrown(ErrContextInvalidated)]_vars

C23_Witness ==
  /\ runtimeId = "throws"
  /\ pc = "thrown"
  /\ outcome = Thrown(ErrContextInvalidated)
  /\ Len(history) = 1
  /\ sendMessageCalls = 1

\* C24: every call of safeRuntimeMessage ends, whatever the transport does and
\* also when it never answers: the call returns or throws, having invoked the
\* transport at most maxRetries+1 times. The timers (the timeout of each race,
\* the retry delay) are what is assumed to run; the transport is not.
C24_EverySendTerminates ==
  (pc \in {"waiting", "delay"})
    ~> (Finished /\ sendMessageCalls <= options.maxRetries + 1)

C24_Witness ==
  /\ pc = "thrown"
  /\ outcome = Thrown(ErrTimeout)
  /\ options = Destructure([timeout |-> NotGiven, maxRetries |-> NotGiven,
                            retryDelay |-> NotGiven])
  /\ Len(history) = RETRY_CONFIG_MAX_RETRIES + 1
  /\ \A i \in 1..Len(history) : history[i] = Thrown(ErrTimeout)
  /\ elapsed = (RETRY_CONFIG_MAX_RETRIES + 1) * TIMEOUT_CONFIG_MESSAGE
                 + RETRY_CONFIG_MAX_RETRIES * RETRY_CONFIG_RETRY_DELAY

\* C25: once a call has thrown CONTEXT_INVALIDATED (contextInvalidated is set,
\* by the probe or by the transport's 'Extension context invalidated'), every
\* later call throws CONTEXT_INVALIDATED without invoking the transport.
C25_DeadStaysDead ==
  [][(pc = "idle" /\ pc' # "idle" /\ contextInvalidated)
       => /\ pc' = "thrown"
          /\ outcome' = Thrown(ErrContextInvalidated)
          /\ sendMessageCalls' = 0]_vars

\* C26: closed-channel and timeout failures draw on one retry budget: a call
\* never invokes the transport more than maxRetries+1 times, and a call that
\* throws MESSAGE_CHANNEL_CLOSED or TIMEOUT has used the whole budget on such
\* failures, in any mix, and throws the kind of its last attempt's failure.
C26_OneBudgetLastKindThrown ==
  /\ sendMessageCalls <= options.maxRetries + 1
  /\ outcome \in {Thrown(ErrChannelClosed), Thrown(ErrTimeout)} =>
       /\ sendMessageCalls = options.maxRetries + 1
       /\ Len(history) = options.maxRetries + 1
       /\ \A i \in 1..Len(history) : history[i] \in TransientFailures
       /\ outcome = Thrown(IF Last(history) = Thrown(ErrTimeout) THEN ErrTimeout
                                                                 ELSE ErrChannelClosed)
  /\ (Len(history) = options.maxRetries + 1 /\ Last(history) \in TransientFailures) =>
       outcome \in {Thrown(ErrChannelClosed), Thrown(ErrTimeout)}

C26_Witness ==
  /\ pc = "thrown"
  /\ options.maxRetries = 2
  /\ history = <<Thrown(ErrTimeout), Thrown(ErrTimeout), Thrown(MsgNoReceiver)>>
  /\ outcome = Thrown(ErrChannelClosed)
  /\ sendMessageCalls = 3

\* C37: when the sendMessage promise of a timed-out attempt fulfils, nothing of
\* the requester changes: the call in progress neither returns nor moves, and a
\* returned call returned the response of its last attempt, which arrived
\* before that attempt's timer fired.
C37_LateResponseIsDiscarded ==
  /\ [](pc = "returned" => (history # <<>> /\ Last(history) = outcome))
  /\ [][\A r \in Responses :
          LateResponse(r) =>
            UNCHANGED <<runtimeId, contextInvalidated, pc, message, options, attempt,
                        lastError, outcome, sendMessageCalls, history, elapsed, sends>>]_vars

\* the first attempt timed out, its response has arrived since, and the call is
\* still waiting for its second attempt
C37_Witness ==
  /\ pc = "waiting"
  /\ history = <<Thrown(ErrTimeout)>>
  /\ sendMessageCalls = 2
  /\ ~orphaned

\* C27: a flagged link becomes 'ready' (Summarized) only on a summary the
\* coordinator produced: when getSummaryForUrl failed and answered with the
\* text of its catch, the link ends with status 'error'.
C27_ReadyOnlyOnProducedSummary ==
  [][\A l \in PageLinks :
       PrefetchReturns(l, "unable") => summaryLoadingStatus'[l] = "error"]_vars

(***************************************************************************)
(* Progress of the listener, checked under SpecServiceTimers.              *)
(***************************************************************************)
\* C28: every classifyLinks or getSummary message the coordinator is handling
\* is eventually answered, also when the classifier, the fetcher or the
\* summarizer never settles: the timer of the race turns the stalled operation
\* into an { error: true } response.
C28_GuardedMessagesAreAnswered ==
  \A m \in 1..MaxMessages :
    (msgs[m].pc = "working" /\ msgs[m].action \in GuardedActions)
      ~> (msgs[m].pc = "done" /\ msgs[m].responses # <<>>)

C28_Witness ==
  \E m \in 1..MaxMessages :
    /\ msgs[m].action = "getSummary"
    /\ msgs[m].pc = "done"
    /\ msgs[m].timedOut
    /\ msgs[m].responses =
         <<ErrorResponse("Summary generation timed out after", TIMEOUT_CONFIG_SUMMARY)>>

\* the classifyLinks request of the batch fails as a whole
BatchFails == ClassifyReturnsError \/ \E kind \in ThrownKinds : ClassifyThrows(kind)

\* C29: when the classifyLinks request of a batch fails as a whole (it throws
\* CONTEXT_INVALIDATED, MESSAGE_CHANNEL_CLOSED, TIMEOUT or another error, or
\* answers { error: true }), no link is added to processedLinks, no badge is
\* created, clickbaitCount keeps its value, and every link of the batch is
\* taken again by the next scan.
C29_FailedBatchLeavesLinksEligible ==
  [][BatchFails =>
       /\ processedLinks' = processedLinks
       /\ \A l \in PageLinks : badges[l] = "absent" => badges'[l] = "absent"
       /\ clickbaitCount' = clickbaitCount
       /\ ~isScanning'
       /\ scanBatch # {}
       /\ scanBatch \subseteq anchors' \ processedLinks']_vars

C29_Witness ==
  /\ "classifyLinks" \in handledDead
  /\ ~isScanning
  /\ processedLinks = {1}
  /\ badges[1] = "inactive"
  /\ badges[2] = "absent"
  /\ clickbaitCount = 1

\* initialize: the first scan, made before the observer and the message
\* listener are set up
InitialScan ==
  /\ rescans = 0
  /\ processedLinks = {}
  /\ ~scanTimeout
  /\ scanPageForLinks

\* initialize has set up the observer and the message listener, which it does
\* when its first scan has ended
InitializeDone == processedLinks # {} \/ rescans >= 1

\* the steps that start and end scans, whatever the outcome of the request
NextScan ==
  \/ scanPageForLinks
  \/ \E flagged \in SUBSET PageLinks : ClassifyReturns(flagged)
  \/ ClassifyReturnsError
  \/ \E kind \in ThrownKinds : ClassifyThrows(kind)
  \/ Rescan
  \/ \E l \in PageLinks : LinkAppears(l)
  \/ DebounceFires
  \/ \E how \in {"undefined", "throws"} : InvalidateContext(how)

\* the scans of a page whose links are all present when the message arrives
\* and whose requests all succeed; messages and page changes are seen once
\* initialize has set up the listener and the observer
NextRescan ==
  \/ InitialScan
  \/ \E flagged \in SUBSET PageLinks : ClassifyReturns(flagged)
  \/ InitializeDone /\ Rescan
  \/ \E l \in PageLinks : InitializeDone /\ rescans = 0 /\ LinkAppears(l)
  \/ DebounceFires
  \/ \E l \in PageLinks, response \in SummaryResponses : PrefetchReturns(l, response)

\* every classifyLinks request is answered and every pending debounce timer fires
FairRescan ==
  /\ WF_vars(\E flagged \in SUBSET PageLinks : ClassifyReturns(flagged))
  /\ WF_vars(DebounceFires)

\* C38: the content script has at most one classifyLinks batch outstanding:
\* a batch is outstanding exactly while isScanning holds, a scan asked for
\* while isScanning holds (by a rescan message, the debounce timer or any
\* other caller) leaves the outstanding batch as it is and sends nothing, and
\* the step that ends a scan (a result, an error response or a throw) leaves
\* isScanning false.
C38_OneBatchOutstanding ==
  /\ [](isScanning <=> scanBatch # {})
  /\ [][isScanning => \/ scanBatch' = scanBatch /\ isScanning'
                      \/ scanBatch' = {} /\ ~isScanning']_vars

\* a rescan message was handled while the batch {2} was outstanding
C38_Witness ==
  /\ rescans = 1
  /\ isScanning
  /\ scanBatch = {2}
  /\ anchors = {1, 2}
  /\ processedLinks = {}

\* C39: after a rescan message (or a settingsUpdated message that re-enables
\* the extension or changes the detection mode) was handled, every link of the
\* page that is not in processedLinks is eventually classified and added to
\* processedLinks again, also when the message was handled during a scan.
C39_RescanReclassifiesEveryLink ==
  \A l \in PageLinks :
    (rescans >= 1 /\ l \in anchors /\ l \notin processedLinks) ~> (l \in processedLinks)

(***************************************************************************)
(* Several classifyLinks messages at once: the listener starts handleAsync *)
(* for each message as it arrives, and each classifyMultipleLinks runs its *)
(* own chunk loop (detection mode 'chrome-ai').                            *)
(***************************************************************************)
NoCall == [pc |-> "none", n |-> 0, i |-> 0, tasks |-> <<>>]

\* batch.map(classifyLink) for the chunk at i: each invocation starts with its cache read
ChunkStarted(ts, i, n) ==
  [k \in 1..n |-> IF k \in ChunkIndexes(i, n) THEN "reading" ELSE ts[k]]

\* a classifyLinks message with n links arrives: classifyMultipleLinks up to
\* the await of its first Promise.all
StartCall(r, n) ==
  /\ running[r].pc = "none"
  /\ \A q \in 1..(r - 1) : running[q].pc # "none"
  /\ running' = [running EXCEPT ![r] =
                   [pc |-> "running", n |-> n, i |-> 0,
                    tasks |-> ChunkStarted([k \in 1..n |-> "todo"], 0, n)]]
  /\ UNCHANGED outsideLoad

\* getClassification answers for link k of invocation r: a hit is returned, a
\* miss goes on to aiManager.classifyClickbait
CacheAnswers(r, k, hit) ==
  /\ running[r].pc = "running"
  /\ k \in 1..running[r].n
  /\ running[r].tasks[k] = "reading"
  /\ running' = [running EXCEPT ![r].tasks[k] = IF hit THEN "done" ELSE "classifying"]
  /\ UNCHANGED outsideLoad

\* aiManager.classifyClickbait settles for link k of invocation r, and
\* classifyLink returns (the classification, or the errored result)
ClassifierSettles(r, k) ==
  /\ running[r].pc = "running"
  /\ k \in 1..running[r].n
  /\ running[r].tasks[k] = "classifying"
  /\ running' = [running EXCEPT ![r].tasks[k] = "done"]
  /\ UNCHANGED outsideLoad

\* the Promise.all of the chunk resolves: i += CONCURRENT_LIMIT and the next
\* chunk starts, or the loop ends
ChunkResolves(r) ==
  LET c == running[r]
      next == c.i + CONCURRENT_LIMIT
  IN  /\ c.pc = "running"
      /\ \A k \in ChunkIndexes(c.i, c.n) : c.tasks[k] = "done"
      /\ running' = [running EXCEPT ![r] =
                       IF next < c.n
                         THEN [c EXCEPT !.i = next, !.tasks = ChunkStarted(c.tasks, next, c.n)]
                         ELSE [c EXCEPT !.i = next, !.pc = "done"]]
      /\ UNCHANGED outsideLoad

InitLoad == running = [r \in 1..MaxCalls |-> NoCall]

NextLoad ==
  \/ \E r \in 1..MaxCalls, n \in 1..MaxCallLinks : StartCall(r, n)
  \/ \E r \in 1..MaxCalls, k \in 1..MaxCallLinks, hit \in BOOLEAN : CacheAnswers(r, k, hit)
  \/ \E r \in 1..MaxCalls, k \in 1..MaxCallLinks : ClassifierSettles(r, k)
  \/ \E r \in 1..MaxCalls : ChunkResolves(r)

\* the aiManager.classifyClickbait invocations that have not settled
ClassifierInvocations ==
  {rk \in (1..MaxCalls) \X (1..MaxCallLinks) :
     /\ rk[2] <= running[rk[1]].n
     /\ running[rk[1]].tasks[rk[2]] = "classifying"}

\* C30: at any time the classifier invocations outstanding at the coordinator,
\* counted over all the classifyLinks messages it is handling, are at most
\* CONCURRENT_LIMIT.
C30_TotalInvocationsWithinLimit ==
  Cardinality(ClassifierInvocations) <= CONCURRENT_LIMIT

(***************************************************************************)
(* saveClassification / saveSummary as the awaits of concurrent calls       *)
(* interleave: set(), then enforceMaxSize() with its get() and remove().    *)
(***************************************************************************)
SaveIds == 1..MaxSaves
NoSave == [pc |-> "none", key |-> NoEntry, entry |-> NoEntry, toRemove |-> {}, during |-> {}]
\* the calls that have started and not returned
SavesRunning == {s \in SaveIds : saves[s].pc \in {"setting", "enforcing", "removing"}}

\* the keys and entries the calls are made with: a classification of one text,
\* a summary of either url
SaveInputs(t) ==
  {[key |-> classificationKey(TextAa), entry |-> ClassificationEntry(c, t)] :
      c \in ClassifierOutputs}
  \cup {[key |-> summaryKey(u), entry |-> SummaryEntry(SummaryOf(u), u, t)] : u \in Texts}

\* saveClassification / saveSummary up to its first await: the entry is built with
\* Date.now() and chrome.storage.local.set is called; the calls of one chunk run
\* together
SaveStarts(s, in) ==
  /\ saves[s].pc = "none"
  /\ \A j \in 1..(s - 1) : saves[j].pc # "none"
  /\ Cardinality(SavesRunning) < CONCURRENT_LIMIT
  /\ saves' = [j \in SaveIds |->
                 IF j = s THEN [NoSave EXCEPT !.pc = "setting", !.key = in.key,
                                              !.entry = in.entry, !.during = SavesRunning]
                 ELSE IF j \in SavesRunning
                   THEN [saves[j] EXCEPT !.during = @ \cup {s}]
                 ELSE saves[j]]
  /\ UNCHANGED <<storage, now, ticks>>
  /\ UNCHANGED outsideSaves

\* the set has reached the store; enforceMaxSize calls get()
SaveSetDone(s) ==
  /\ saves[s].pc = "setting"
  /\ storage' = StorageSet(storage, saves[s].key, saves[s].entry)
  /\ saves' = [saves EXCEPT ![s].pc = "enforcing"]
  /\ UNCHANGED <<now, ticks>>
  /\ UNCHANGED outsideSaves

\* enforceMaxSize: get() returns the store as it is now; within the limit the call
\* returns, else toRemove is computed and remove(toRemove) is called
SaveGetReturns(s) ==
  /\ saves[s].pc = "enforcing"
  /\ \E toRemove \in OverflowChoices(storage) :
       saves' = [saves EXCEPT ![s].pc = IF toRemove = {} THEN "done" ELSE "removing",
                              ![s].toRemove = toRemove]
  /\ UNCHANGED <<storage, now, ticks>>
  /\ UNCHANGED outsideSaves

\* enforceMaxSize: the remove has reached the store; the call returns
SaveRemoveDone(s) ==
  /\ saves[s].pc = "removing"
  /\ storage' = StorageRemove(storage, saves[s].toRemove)
  /\ saves' = [saves EXCEPT ![s].pc = "done"]
  /\ UNCHANGED <<now, ticks>>
  /\ UNCHANGED outsideSaves

\* a millisecond passes
SaveClockTicks ==
  /\ ticks < MaxTicks
  /\ ticks' = ticks + 1
  /\ now' = now + 1
  /\ UNCHANGED <<storage, saves>>
  /\ UNCHANGED outsideSaves

InitSaves == saves = [s \in SaveIds |-> NoSave]

NextSaves ==
  \/ \E s \in SaveIds, in \in SaveInputs(now) : SaveStarts(s, in)
  \/ \E s \in SaveIds : SaveSetDone(s)
  \/ \E s \in SaveIds : SaveGetReturns(s)
  \/ \E s \in SaveIds : SaveRemoveDone(s)
  \/ SaveClockTicks

(***************************************************************************)
(* Properties of concurrent saves, checked under SpecSaves.                *)
(***************************************************************************)
\* the set of call s has reached the store
SetReached(s) == saves[s].pc \in {"enforcing", "removing", "done"}
\* the store holds the entry call s built
HoldsEntryOf(store, s) ==
  saves[s].key \in DOMAIN store /\ store[saves[s].key] = saves[s].entry
\* calls s and r were running at the same time
Overlap(s, r) == s \in saves[r].during \/ r \in saves[s].during

\* C32: the value stored under a key changes only when the set of a save of that
\* key reaches the store, and then it becomes the entry that save built, data and
\* timestamp together.
C32_LastWriteWinsWholesale ==
  [][\A key \in DOMAIN storage' :
       (key \notin DOMAIN storage \/ storage'[key] # storage[key]) =>
         \E s \in SaveIds :
           /\ SaveSetDone(s)
           /\ saves[s].key = key
           /\ storage'[key] = saves[s].entry]_vars

\* two concurrent saves of one key built entries that differ in data and in
\* timestamp, both sets have reached the store, and the store holds the later one
C32_Witness ==
  \E s1, s2 \in SaveIds :
    /\ s1 # s2
    /\ Overlap(s1, s2)
    /\ saves[s1].key = saves[s2].key
    /\ SetReached(s1) /\ SetReached(s2)
    /\ saves[s1].entry.data # saves[s2].entry.data
    /\ saves[s1].entry.timestamp < saves[s2].entry.timestamp
    /\ storage[saves[s1].key] = saves[s1].entry

\* C33: the remove of an enforcement deletes the entry written by its own save,
\* or by a completed save that ran concurrently with it, only if no older entry
\* is left in the store (entries of one millisecond may go in either order).
C33_SavedEntrySurvivesEnforcement ==
  [][\A r \in SaveIds :
       SaveRemoveDone(r) =>
         \A s \in SaveIds :
           (/\ s = r \/ (saves[s].pc = "done" /\ Overlap(s, r))
            /\ HoldsEntryOf(storage, s)
            /\ ~HoldsEntryOf(storage', s))
           => \A k \in DOMAIN storage' :
                TimestampOf(storage'[k]) >= saves[s].entry.timestamp]_vars

(***************************************************************************)
(* The pending-request tables of the content script that talks to the      *)
(* in-page script (unnamed/part_012, unnamed/part_010).                    *)
(***************************************************************************)
outsidePending == <<varsSaves, varsLoad, varsSend, varsBatch, varsCache, varsService, varsFault,
                    varsContent>>

RequestIds == 1..(MaxRequests + 1)
RequestTypes == {"BB_CLASSIFY", "BB_SUMMARIZE"}
ResultTypes == {"BB_CLASSIFY_RESULT", "BB_SUMMARY_RESULT"}
ResultTypeOf(type) == IF type = "BB_CLASSIFY" THEN "BB_CLASSIFY_RESULT" ELSE "BB_SUMMARY_RESULT"

\* pending = table.get(id); if (pending) { pending.resolve(...); table.delete(id); }
ResolveAndDelete(table, id) == IF id \in table THEN table \ {id} ELSE table

\* classifyWithAI: a new id, an entry of pendingClassifications, a BB_CLASSIFY message
classifyWithAI ==
  /\ uuids < MaxRequests
  /\ uuids' = uuids + 1
  /\ pendingClassifications' = pendingClassifications \cup {uuids + 1}
  /\ windowMessages' = windowMessages \cup {[type |-> "BB_CLASSIFY", id |-> uuids + 1, ok |-> TRUE]}
  /\ UNCHANGED pendingSummaries
  /\ UNCHANGED outsidePending

\* summarizeWithAI: a new id, an entry of pendingSummaries, a BB_SUMMARIZE message
summarizeWithAI ==
  /\ uuids < MaxRequests
  /\ uuids' = uuids + 1
  /\ pendingSummaries' = pendingSummaries \cup {uuids + 1}
  /\ windowMessages' = windowMessages \cup {[type |-> "BB_SUMMARIZE", id |-> uuids + 1, ok |-> TRUE]}
  /\ UNCHANGED pendingClassifications
  /\ UNCHANGED outsidePending

\* the in-page listener handles a request: classify / summarize settles and the
\* result is posted with the id of the request, ok: true or ok: false
InpageAnswers(m, ok) ==
  /\ m \in windowMessages
  /\ m.type \in RequestTypes
  /\ windowMessages' = (windowMessages \ {m}) \cup {[type |-> ResultTypeOf(m.type), id |-> m.id, ok |-> ok]}
  /\ UNCHANGED <<pendingClassifications, pendingSummaries, uuids>>
  /\ UNCHANGED outsidePending

\* a request is dispatched while the in-page script has no listener registered
\* (inpage.js is loaded by a script element and has not run, or cannot be
\* loaded): no handler sees it
RequestGetsNoReply(m) ==
  /\ m \in windowMessages
  /\ m.type \in RequestTypes
  /\ windowMessages' = windowMessages \ {m}
  /\ UNCHANGED <<pendingClassifications, pendingSummaries, uuids>>
  /\ UNCHANGED outsidePending

\* the listener of the content script handles a result message
OnResultMessage(type, id) ==
  /\ pendingClassifications' = IF type = "BB_CLASSIFY_RESULT"
                                 THEN ResolveAndDelete(pendingClassifications, id)
                                 ELSE pendingClassifications
  /\ pendingSummaries' = IF type = "BB_SUMMARY_RESULT"
                           THEN ResolveAndDelete(pendingSummaries, id)
                           ELSE pendingSummaries

\* a result posted by the in-page script is dispatched
ResultArrives(m) ==
  /\ m \in windowMessages
  /\ m.type \in ResultTypes
  /\ windowMessages' = windowMessages \ {m}
  /\ OnResultMessage(m.type, m.id)
  /\ UNCHANGED uuids
  /\ UNCHANGED outsidePending

\* a result message posted by another script of the page (ev.source is the
\* window for it too), with any id
StrayResultArrives(type, id) ==
  /\ OnResultMessage(type, id)
  /\ UNCHANGED <<windowMessages, uuids>>
  /\ UNCHANGED outsidePending

InitPending ==
  /\ pendingClassifications = {}
  /\ pendingSummaries = {}
  /\ windowMessages = {}
  /\ uuids = 0

NextPending ==
  \/ classifyWithAI
  \/ summarizeWithAI
  \/ \E m \in windowMessages, ok \in BOOLEAN : InpageAnswers(m, ok)
  \/ \E m \in windowMessages : RequestGetsNoReply(m)
  \/ \E m \in windowMessages : ResultArrives(m)
  \/ \E type \in ResultTypes, id \in RequestIds : StrayResultArrives(type, id)

\* the in-page listener answers every request it sees and every posted result
\* is dispatched
FairPending ==
  /\ \A id \in RequestIds, type \in RequestTypes :
       WF_vars(\E ok \in BOOLEAN : InpageAnswers([type |-> type, id |-> id, ok |-> TRUE], ok))
  /\ WF_vars(\E m \in windowMessages : ResultArrives(m))

\* C40: every entry of pendingClassifications and pendingSummaries is removed
\* in the end (its request settles by a result with ok: true, a result with
\* ok: false, or a timeout), so the tables do not keep entries of requests that
\* will get no reply; a result message whose id is in neither table changes
\* nothing.
C40_PendingEntriesAreRemoved ==
  /\ \A id \in RequestIds :
       /\ (id \in pendingClassifications) ~> (id \notin pendingClassifications)
       /\ (id \in pendingSummaries) ~> (id \notin pendingSummaries)
  /\ [][\A type \in ResultTypes, id \in RequestIds :
          (StrayResultArrives(type, id) /\ id \notin pendingClassifications \cup pendingSummaries)
            => UNCHANGED varsPending]_vars

(***************************************************************************)
(* Specifications.                                                         *)
(***************************************************************************)
InitSpecSend ==
  /\ InitSend
  /\ InitBatch
  /\ InitCache
  /\ InitService
  /\ InitFault
  /\ InitContent
  /\ InitLoad
  /\ InitSaves
  /\ InitPending

SpecSend == InitSpecSend /\ [][NextSend]_vars

InitSpecBatch ==
  /\ InitSend
  /\ runtimeId = "present"
  /\ InitBatch
  /\ InitCache
  /\ InitService
  /\ InitFault
  /\ InitContent
  /\ InitLoad
  /\ InitSaves
  /\ InitPending

SpecBatch == InitSpecBatch /\ [][NextBatch]_vars

InitSpecCache ==
  /\ InitSend
  /\ runtimeId = "present"
  /\ InitBatch
  /\ InitCache
  /\ InitService
  /\ InitFault
  /\ InitContent
  /\ InitLoad
  /\ InitSaves
  /\ InitPending

SpecCache == InitSpecCache /\ [][NextCache]_vars

InitSpecService ==
  /\ InitSend
  /\ runtimeId = "present"
  /\ InitBatch
  /\ InitCache
  /\ InitService
  /\ InitFault
  /\ InitContent
  /\ InitLoad
  /\ InitSaves
  /\ InitPending

SpecService == InitSpecService /\ [][NextService]_vars

InitSpecFault ==
  /\ InitSend
  /\ runtimeId = "present"
  /\ InitBatch
  /\ InitCache
  /\ InitService
  /\ InitFault
  /\ InitContent
  /\ InitLoad
  /\ InitSaves
  /\ InitPending

SpecFault == InitSpecFault /\ [][NextFault]_vars

InitSpecContent ==
  /\ InitSend
  /\ runtimeId = "present"
  /\ InitBatch
  /\ InitCache
  /\ InitService
  /\ InitFault
  /\ InitContent
  /\ InitLoad
  /\ InitSaves
  /\ InitPending

SpecContent == InitSpecContent /\ [][NextContent]_vars

\* the timers of safeRuntimeMessage run; chrome.runtime.sendMessage need not settle
SpecSendTimers ==
  /\ InitSpecSend
  /\ [][NextSend]_vars
  /\ WF_vars(TimerFires)
  /\ WF_vars(RetryDelayElapsed)

\* the timers of the coordinator run while it stays alive; the classifier, the
\* fetcher and the summarizer need not settle
SpecServiceTimers ==
  /\ InitSpecService
  /\ [][NextService]_vars
  /\ \A m \in 1..MaxMessages :
       WF_vars(\E cb \in CallbackBehaviours : DeadlineElapses(m, cb))

InitSpecLoad ==
  /\ InitSend
  /\ runtimeId = "present"
  /\ InitBatch
  /\ InitCache
  /\ InitService
  /\ InitFault
  /\ InitContent
  /\ InitLoad
  /\ InitSaves
  /\ InitPending

SpecLoad == InitSpecLoad /\ [][NextLoad]_vars

InitSpecPending ==
  /\ InitSend
  /\ runtimeId = "present"
  /\ InitBatch
  /\ InitCache
  /\ InitService
  /\ InitFault
  /\ InitContent
  /\ InitLoad
  /\ InitSaves
  /\ InitPending

InitSpecSaves ==
  /\ InitSend
  /\ runtimeId = "present"
  /\ InitBatch
  /\ InitCache
  /\ InitService
  /\ InitFault
  /\ InitContent
  /\ InitLoad
  /\ InitSaves
  /\ InitPending

SpecSaves == InitSpecSaves /\ [][NextSaves]_vars

SpecCleanup == InitSpecCache /\ [][NextCleanup]_vars

SpecScan == InitSpecContent /\ [][NextScan]_vars

SpecRescan == InitSpecContent /\ [][NextRescan]_vars /\ FairRescan

SpecPending == InitSpecPending /\ [][NextPending]_vars /\ FairPending

====
